---- MODULE Spec2Model ----
(***************************************************************************)
(* Model of the model-finder dashboard (davidhariri/model-finder):         *)
(*   - the scoring helpers of src/data/models.ts (normalize, overallScore, *)
(*     blendedCost, bestCost, bestSpeed, costRange, speedRange),           *)
(*   - the filter / sort / search pipeline and the sort toggle of the Home *)
(*     component in src/app/page.tsx,                                      *)
(*   - the sort toggle of the provider table in                            *)
(*     src/components/ModelDetail.tsx.                                     *)
(*                                                                         *)
(* Numbers.  The source computes in IEEE doubles.  The model computes in   *)
(* exact fixed point:                                                      *)
(*   - a normalized score n in [0,1] is the integer n * NormScale, where   *)
(*     NormScale is a common multiple of every (ceiling - floor), so the   *)
(*     division of normalize is exact for integer raw scores;              *)
(*   - a price is an integer number of cents; a blended cost is an integer *)
(*     number of 1/CostScale cents, so the division by 4 is exact.         *)
(* Math.round is floor(x + 1/2).  When the exact mean is k + 1/2 the double*)
(* computation can land on either side of the tie; the properties below    *)
(* are stated so that they do not depend on the direction of a tie.        *)
(***************************************************************************)
EXTENDS Integers, Sequences, FiniteSets, TLC

(***************************************************************************)
(* Bounds of the model                                                     *)
(***************************************************************************)
\* normalize is applied to every integer raw score in MinRawInput..MaxRawInput
MinRawInput == 0 - 30
MaxRawInput == 130
\* the raw scores a model is drawn from: -5 (below every floor), 40, 85 (above
\* the ceiling of coding), then 130 (above every ceiling), ...
MaxRawIdx == 2

RawValues == { 45 * i - 5 : i \in 0..MaxRawIdx }

(***************************************************************************)
(* src/data/models.ts : GOALPOSTS, normalize                               *)
(***************************************************************************)
GOALPOSTSGeneralFloorZero ==
  [ coding       |-> [floor |-> 0,  ceiling |-> 80],
    codingLive   |-> [floor |-> 0,  ceiling |-> 80],
    reasoning    |-> [floor |-> 25, ceiling |-> 100],
    reasoningHle |-> [floor |-> 0,  ceiling |-> 100],
    math         |-> [floor |-> 0,  ceiling |-> 100],
    general      |-> [floor |-> 0,  ceiling |-> 100] ]

GOALPOSTS ==
  [ coding       |-> [floor |-> 0,  ceiling |-> 80],
    codingLive   |-> [floor |-> 0,  ceiling |-> 80],
    reasoning    |-> [floor |-> 25, ceiling |-> 100],
    reasoningHle |-> [floor |-> 0,  ceiling |-> 100],
    math         |-> [floor |-> 0,  ceiling |-> 100],
    general      |-> [floor |-> 10, ceiling |-> 100] ]

GoalpostKeys == DOMAIN GOALPOSTS

\* 3600 = lcm(80, 75, 100, 90): one unit of a normalized score is 1/3600
NormScale == 3600

Max(a, b) == IF a >= b THEN a ELSE b
Min(a, b) == IF a <= b THEN a ELSE b

\* Math.max(0, Math.min(1, (raw - gp.floor) / (gp.ceiling - gp.floor)))
normalizeNoUpperClamp(raw, key) ==
  LET gp == GOALPOSTS[key]
  IN  Max(0, ((raw - gp.floor) * NormScale) \div (gp.ceiling - gp.floor))

normalizeInverted(raw, key) ==
  LET gp == GOALPOSTS[key]
  IN  Max(0, Min(NormScale,
                 ((gp.ceiling - raw) * NormScale) \div (gp.ceiling - gp.floor)))

normalizeFloorIgnored(raw, key) ==
  LET gp == GOALPOSTS[key]
  IN  Max(0, Min(NormScale, (raw * NormScale) \div (gp.ceiling - gp.floor)))

normalize(raw, key) ==
  LET gp == GOALPOSTS[key]
  IN  Max(0, Min(NormScale,
                 ((raw - gp.floor) * NormScale) \div (gp.ceiling - gp.floor)))

(***************************************************************************)
(* src/data/models.ts : overallScore                                       *)
(***************************************************************************)
\* the keys of the Scores interface; an optional field that is absent is a
\* key outside the DOMAIN of the scores record
ScoreKeys == { "coding", "codingLive", "reasoning", "reasoningHle",
               "math", "general", "multimodal", "elo" }
ExcludedKeys == { "multimodal", "elo" }

\* s.key != null
Has(s, key) == key \in DOMAIN s

\* the result of 0 / 0, which Math.round hands on
NaN == 0 - 1

\* Math.round(num / den) for den > 0: floor(num / den + 1/2)
MathRound(num, den) == (2 * num + den) \div (2 * den)

MathFloor(num, den) == num \div den

RECURSIVE SumSeq(_)
\* parts.reduce((a, b) => a + b, 0)
SumSeq(q) == IF q = <<>> THEN 0 ELSE q[1] + SumSeq(Tail(q))

\* the components overallScore pushes, in the order it pushes them
PartsBothCoding(s) ==
  LET p0 == << normalize(s.reasoning, "reasoning") >>
      p1 == IF Has(s, "general")
              THEN Append(p0, normalize(s.general, "general")) ELSE p0
      p2 == IF Has(s, "coding")
              THEN Append(p1, normalize(s.coding, "coding")) ELSE p1
      p3 == IF Has(s, "codingLive")
              THEN Append(p2, normalize(s.codingLive, "codingLive")) ELSE p2
      p4 == IF Has(s, "math")
              THEN Append(p3, normalize(s.math, "math")) ELSE p3
  IN  IF Has(s, "reasoningHle")
        THEN Append(p4, normalize(s.reasoningHle, "reasoningHle")) ELSE p4

PartsWithMultimodal(s) ==
  LET p0 == << normalize(s.reasoning, "reasoning") >>
      p1 == IF Has(s, "general")
              THEN Append(p0, normalize(s.general, "general")) ELSE p0
      p2 == IF Has(s, "coding")
              THEN Append(p1, normalize(s.coding, "coding"))
              ELSE IF Has(s, "codingLive")
                     THEN Append(p1, normalize(s.codingLive, "codingLive"))
                     ELSE p1
      p3 == IF Has(s, "math")
              THEN Append(p2, normalize(s.math, "math")) ELSE p2
      p4 == IF Has(s, "reasoningHle")
              THEN Append(p3, normalize(s.reasoningHle, "reasoningHle"))
              ELSE p3
  IN  IF Has(s, "multimodal")
        THEN Append(p4, normalize(s.multimodal, "reasoningHle")) ELSE p4

PartsReasoningOptional(s) ==
  LET p0 == << >>
      p1 == IF Has(s, "general")
              THEN Append(p0, normalize(s.general, "general")) ELSE p0
      p2 == IF Has(s, "coding")
              THEN Append(p1, normalize(s.coding, "coding"))
              ELSE IF Has(s, "codingLive")
                     THEN Append(p1, normalize(s.codingLive, "codingLive"))
                     ELSE p1
      p3 == IF Has(s, "math")
              THEN Append(p2, normalize(s.math, "math")) ELSE p2
  IN  IF Has(s, "reasoningHle")
        THEN Append(p3, normalize(s.reasoningHle, "reasoningHle")) ELSE p3

Parts(s) ==
  LET p0 == << normalize(s.reasoning, "reasoning") >>
      p1 == IF Has(s, "general")
              THEN Append(p0, normalize(s.general, "general")) ELSE p0
      p2 == IF Has(s, "coding")
              THEN Append(p1, normalize(s.coding, "coding"))
              ELSE IF Has(s, "codingLive")
                     THEN Append(p1, normalize(s.codingLive, "codingLive"))
                     ELSE p1
      p3 == IF Has(s, "math")
              THEN Append(p2, normalize(s.math, "math")) ELSE p2
  IN  IF Has(s, "reasoningHle")
        THEN Append(p3, normalize(s.reasoningHle, "reasoningHle")) ELSE p3

overallScoreFloored(model) ==
  LET parts == Parts(model.scores)
  IN  IF Len(parts) = 0
        THEN NaN
        ELSE MathFloor(SumSeq(parts) * 100, Len(parts) * NormScale)

\* Math.round((parts.reduce((a, b) => a + b, 0) / parts.length) * 100)
overallScore(model) ==
  LET parts == Parts(model.scores)
  IN  IF Len(parts) = 0
        THEN NaN
        ELSE MathRound(SumSeq(parts) * 100, Len(parts) * NormScale)

(***************************************************************************)
(* src/data/models.ts : blendedCost                                        *)
(***************************************************************************)
\* a blended cost is counted in 1/CostScale cents: (3 * in + out) / 4 is exact
CostScale == 4

blendedCostOutputWeighted(p) ==
  ((p.costPer1MInput + p.costPer1MOutput * 3) * CostScale) \div 4

\* (p.costPer1MInput * 3 + p.costPer1MOutput) / 4
blendedCost(p) ==
  ((p.costPer1MInput * 3 + p.costPer1MOutput) * CostScale) \div 4

(***************************************************************************)
(* State                                                                   *)
(***************************************************************************)
VARIABLES
  nRaw, nKey, nOut, nDone,            \* normalize: arguments, result, applied
  modelA, modelB, outA, outB, phase,  \* overallScore of a model and a variant
  prov, costOut, costDone,            \* blendedCost: argument, result, applied
  models,                             \* the catalog (data/models.ts: models)
  minScore, minSpeedVal,              \* Home: the two sliders
  requireVision, requireOpenWeights,  \* Home: the two filter pills
  sortCol, sortAsc,                   \* Home: the table's sort column, direction
  searchQuery, searchFocused,         \* Home: the search box
  bModel, bOrder, bOut, bOrderOut,    \* bestCost, bestSpeed, costRange, speedRange:
  bPhase,                             \*   a model, its providers reordered, results
  provSortCol, provSortAsc,           \* ModelDetail: the provider table's sort
  homeClicks, provClicks,             \* the run of clicks on one column header
                                      \*   that led to each table's sort state
  lkTable, lkId, lkOut, lkText,       \* getLab, getProvider: the table, the id,
  lkPhase,                            \*   the entry found, the text a caller shows
  selectedModel, closingModal,        \* Home: the model in the detail modal
  hash,                               \* window.location.hash without its '#'
  listening, hashEvents,              \* the hashchange listener, events queued
  modalPhase,                         \* ModelDetail: phase
  frames,                             \* ModelDetail: animation frames requested
  timers,                             \* setTimeout(onClose, 300) not yet fired
  requested, starts, closes,          \* since the last selection: a close was
                                      \*   asked for, onCloseStart and onClose calls
  tab, tabTimers,                     \* RankingTabs: tab, the swaps scheduled
  rendered                            \* the state that the last render showed

normVars  == << nRaw, nKey, nOut, nDone >>
scoreVars == << modelA, modelB, outA, outB, phase >>
costVars  == << prov, costOut, costDone >>
homeVars  == << models, minScore, minSpeedVal, requireVision,
               requireOpenWeights, sortCol, sortAsc, searchQuery,
               searchFocused >>
bestVars  == << bModel, bOrder, bOut, bOrderOut, bPhase >>
detailVars == << provSortCol, provSortAsc >>
clickVars == << homeClicks, provClicks >>
lookupVars == << lkTable, lkId, lkOut, lkText, lkPhase >>
modalVars == << selectedModel, closingModal, hash, listening, hashEvents,
               modalPhase, frames, timers >>
openingVars == << requested, starts, closes >>
tabVars   == << tab, tabTimers >>
renderVars == << rendered >>
pageVars  == << modalVars, openingVars, tabVars, renderVars >>
vars      == << normVars, scoreVars, costVars, homeVars, bestVars, detailVars,
               clickVars, lookupVars, pageVars >>

\* the end-to-end scenario of the specification, section 8
ScenarioScoresA == [reasoning |-> 80, general |-> 90]
ScenarioScoresB == [reasoning |-> 60]
ScenarioScoresC == [reasoning |-> 90, math |-> 50]

IdleNorm  == nRaw = 0 /\ nKey = "reasoning" /\ nOut = 0 /\ nDone = FALSE
IdleScore ==
  /\ modelA = [scores |-> ScenarioScoresB]
  /\ modelB = modelA
  /\ outA = 0
  /\ outB = 0
  /\ phase = "idle"
IdleCost  ==
  /\ prov = [providerId |-> "openai", costPer1MInput |-> 0,
             costPer1MOutput |-> 0, tokensPerSecond |-> 0]
  /\ costOut = 0
  /\ costDone = FALSE

IdleBest ==
  /\ bModel = [providers |-> << >>]
  /\ bOrder = bModel
  /\ bOut = [bestCost |-> 0, bestSpeed |-> 0,
             costRange |-> << 0, 0 >>, speedRange |-> << 0, 0 >>]
  /\ bOrderOut = bOut
  /\ bPhase = "idle"

IdleDetail ==
  /\ provSortCol = "blended"
  /\ provSortAsc = TRUE

\* score, descending, is where one click on Score leads; blended, ascending,
\* is where two clicks on Blended lead
IdleClicks ==
  /\ homeClicks = [col |-> "score", n |-> 1]
  /\ provClicks = [col |-> "blended", n |-> 2]

IdleLookup ==
  /\ lkTable = "labs"
  /\ lkId = ""
  /\ lkOut = [ undefined |-> TRUE ]
  /\ lkText = << >>
  /\ lkPhase = "idle"

\* null: no model selected; a record, as a selected model is
null == [ null |-> TRUE ]

\* the page before it has loaded, with no hash in its address
IdleModal ==
  /\ selectedModel = null
  /\ closingModal = FALSE
  /\ hash = ""
  /\ listening = FALSE
  /\ hashEvents = 0
  /\ modalPhase = "unmounted"
  /\ frames = "none"
  /\ timers = 0

IdleOpening ==
  /\ requested = FALSE
  /\ starts = 0
  /\ closes = 0

IdleTabs ==
  /\ tab = "intelligence"
  /\ tabTimers = << >>

\* nothing has been rendered
IdleRender == rendered = << >>

IdlePage == IdleModal /\ IdleOpening /\ IdleTabs /\ IdleRender

IdleHome ==
  /\ models = << >>
  /\ minScore = 70
  /\ minSpeedVal = 0
  /\ requireVision = FALSE
  /\ requireOpenWeights = FALSE
  /\ sortCol = "score"
  /\ sortAsc = FALSE
  /\ searchQuery = << >>
  /\ searchFocused = FALSE

(***************************************************************************)
(* normalize applied to every raw score and benchmark key                  *)
(***************************************************************************)
InitNormalize ==
  /\ nRaw \in MinRawInput..MaxRawInput
  /\ nKey \in GoalpostKeys
  /\ nOut = 0
  /\ nDone = FALSE
  /\ IdleScore
  /\ IdleCost
  /\ IdleHome
  /\ IdleBest
  /\ IdleDetail
  /\ IdleClicks
  /\ IdleLookup
  /\ IdlePage

ApplyNormalize ==
  /\ ~nDone
  /\ nOut' = normalize(nRaw, nKey)
  /\ nDone' = TRUE
  /\ UNCHANGED << nRaw, nKey, scoreVars, costVars, homeVars, bestVars, detailVars, clickVars, lookupVars, pageVars >>

NextNormalize == ApplyNormalize

SpecNormalize == InitNormalize /\ [][NextNormalize]_vars

(***************************************************************************)
(* overallScore applied to a model, then to a variant of the model that    *)
(* differs from it in one field of scores                                  *)
(***************************************************************************)
OptionalCoreKeys == GoalpostKeys \ {"reasoning"}

\* the values a field of scores is varied over
FieldValues(key) ==
  CASE key = "multimodal" -> {54, 75}
    [] key = "elo"        -> {1346, 1441}
    [] OTHER              -> RawValues

\* the values the excluded fields have in the models drawn at the start
ExtraScores ==
  { [k \in E |-> IF k = "multimodal" THEN 54 ELSE 1346] : E \in SUBSET ExcludedKeys }

CoreScores ==
  UNION { [D \cup {"reasoning"} -> RawValues] : D \in SUBSET OptionalCoreKeys }

Merge(f, g) ==
  [k \in DOMAIN f \cup DOMAIN g |-> IF k \in DOMAIN f THEN f[k] ELSE g[k]]

ScoresSet ==
  { Merge(c, e) : c \in CoreScores, e \in ExtraScores }
    \cup { ScenarioScoresA, ScenarioScoresB, ScenarioScoresC }

WithScore(s, key, v) ==
  [k \in DOMAIN s \cup {key} |-> IF k = key THEN v ELSE s[k]]

WithoutScore(s, key) == [k \in DOMAIN s \ {key} |-> s[k]]

InitScore ==
  /\ modelA \in { [scores |-> s] : s \in ScoresSet }
  /\ modelB = modelA
  /\ outA = 0
  /\ outB = 0
  /\ phase = "input"
  /\ IdleNorm
  /\ IdleCost
  /\ IdleHome
  /\ IdleBest
  /\ IdleDetail
  /\ IdleClicks
  /\ IdleLookup
  /\ IdlePage

ScoreModel ==
  /\ phase = "input"
  /\ outA' = overallScore(modelA)
  /\ phase' = "scored"
  /\ UNCHANGED << modelA, modelB, outB, normVars, costVars, homeVars, bestVars, detailVars, clickVars, lookupVars, pageVars >>

\* the variant has one field of scores set to another value, or added
ScoreVariantSet ==
  /\ phase = "scored"
  /\ \E key \in ScoreKeys : \E v \in FieldValues(key) :
       /\ ~(Has(modelA.scores, key) /\ modelA.scores[key] = v)
       /\ modelB' = [scores |-> WithScore(modelA.scores, key, v)]
       /\ outB' = overallScore(modelB')
  /\ phase' = "compared"
  /\ UNCHANGED << modelA, outA, normVars, costVars, homeVars, bestVars, detailVars, clickVars, lookupVars, pageVars >>

\* the variant has one optional field of scores removed
ScoreVariantUnset ==
  /\ phase = "scored"
  /\ \E key \in DOMAIN modelA.scores \ {"reasoning"} :
       /\ modelB' = [scores |-> WithoutScore(modelA.scores, key)]
       /\ outB' = overallScore(modelB')
  /\ phase' = "compared"
  /\ UNCHANGED << modelA, outA, normVars, costVars, homeVars, bestVars, detailVars, clickVars, lookupVars, pageVars >>

NextScore == ScoreModel \/ ScoreVariantSet \/ ScoreVariantUnset

SpecScore == InitScore /\ [][NextScore]_vars

(***************************************************************************)
(* blendedCost applied to a provider entry                                 *)
(***************************************************************************)
\* prices in cents, in steps of 25 cents
MaxCostIdx == 32

CostValues == { 25 * i : i \in 0..MaxCostIdx }

InitCost ==
  /\ prov \in [ providerId : {"openai"}, costPer1MInput : CostValues,
                costPer1MOutput : CostValues, tokensPerSecond : {134} ]
  /\ costOut = 0
  /\ costDone = FALSE
  /\ IdleNorm
  /\ IdleScore
  /\ IdleHome
  /\ IdleBest
  /\ IdleDetail
  /\ IdleClicks
  /\ IdleLookup
  /\ IdlePage

ApplyBlendedCost ==
  /\ ~costDone
  /\ costOut' = blendedCost(prov)
  /\ costDone' = TRUE
  /\ UNCHANGED << prov, normVars, scoreVars, homeVars, bestVars, detailVars, clickVars, lookupVars, pageVars >>

NextCost == ApplyBlendedCost

SpecCost == InitCost /\ [][NextCost]_vars

(***************************************************************************)
(* src/data/models.ts : bestCost, bestSpeed, labs, getLab                  *)
(***************************************************************************)
\* Math.min(...values) and Math.max(...values) of a non-empty list
MathMin(values) ==
  LET S == { values[i] : i \in 1..Len(values) }
  IN  CHOOSE x \in S : \A y \in S : x <= y

MathMax(values) ==
  LET S == { values[i] : i \in 1..Len(values) }
  IN  CHOOSE x \in S : \A y \in S : x >= y

bestCostFirstProvider(model) ==
  blendedCost(model.providers[1])

\* Math.min(...model.providers.map((p) => blendedCost(p)))
bestCost(model) ==
  MathMin([ i \in 1..Len(model.providers) |-> blendedCost(model.providers[i]) ])

\* Math.max(...model.providers.map((p) => p.tokensPerSecond))
bestSpeed(model) ==
  MathMax([ i \in 1..Len(model.providers) |-> model.providers[i].tokensPerSecond ])

costRangeFirstToLast(model) ==
  LET costs == [ i \in 1..Len(model.providers) |-> blendedCost(model.providers[i]) ]
  IN  << costs[1], costs[Len(costs)] >>

\* const costs = model.providers.map(blendedCost);
\* return [Math.min(...costs), Math.max(...costs)]
costRange(model) ==
  LET costs == [ i \in 1..Len(model.providers) |-> blendedCost(model.providers[i]) ]
  IN  << MathMin(costs), MathMax(costs) >>

\* const speeds = model.providers.map((p) => p.tokensPerSecond);
\* return [Math.min(...speeds), Math.max(...speeds)]
speedRange(model) ==
  LET speeds == [ i \in 1..Len(model.providers) |-> model.providers[i].tokensPerSecond ]
  IN  << MathMin(speeds), MathMax(speeds) >>

(***************************************************************************)
(* Strings are sequences of one-character strings                          *)
(***************************************************************************)
UpperChars == << "A", "B", "C", "D", "E", "F", "G", "H", "I", "J", "K", "L", "M",
                 "N", "O", "P", "Q", "R", "S", "T", "U", "V", "W", "X", "Y", "Z" >>
LowerChars == << "a", "b", "c", "d", "e", "f", "g", "h", "i", "j", "k", "l", "m",
                 "n", "o", "p", "q", "r", "s", "t", "u", "v", "w", "x", "y", "z" >>
\* the other characters of the catalog's names and dates, in collation order
OtherChars == << " ", "-", ".", "+", "0", "1", "2", "3", "4", "5", "6", "7",
                 "8", "9" >>

\* the index of c in chars, 0 when it is not there
IndexOf(chars, c) ==
  IF \E i \in 1..Len(chars) : chars[i] = c
    THEN CHOOSE i \in 1..Len(chars) : chars[i] = c
    ELSE 0

IsUpper(c) == IndexOf(UpperChars, c) > 0

\* String.prototype.toLowerCase
toLowerCase(str) ==
  [ i \in 1..Len(str) |->
      IF IsUpper(str[i]) THEN LowerChars[IndexOf(UpperChars, str[i])] ELSE str[i] ]

\* String.prototype.includes
includes(str, q) ==
  \E i \in 0..(Len(str) - Len(q)) : SubSeq(str, i + 1, i + Len(q)) = q

\* the primary collation weight of a character: space and punctuation, then
\* digits, then letters without regard to case
PrimaryWeight(c) ==
  LET lc == IF IsUpper(c) THEN LowerChars[IndexOf(UpperChars, c)] ELSE c
  IN  IF IndexOf(OtherChars, lc) > 0
        THEN IndexOf(OtherChars, lc)
        ELSE Len(OtherChars) + IndexOf(LowerChars, lc)

RECURSIVE ComparePrimary(_, _)
ComparePrimary(a, b) ==
  IF a = << >> /\ b = << >> THEN 0
  ELSE IF a = << >> THEN 0 - 1
  ELSE IF b = << >> THEN 1
  ELSE IF PrimaryWeight(a[1]) < PrimaryWeight(b[1]) THEN 0 - 1
  ELSE IF PrimaryWeight(a[1]) > PrimaryWeight(b[1]) THEN 1
  ELSE ComparePrimary(Tail(a), Tail(b))

RECURSIVE CompareCase(_, _)
\* equal primary weights: at the first difference in case, lower case first
CompareCase(a, b) ==
  IF a = << >> \/ b = << >> THEN 0
  ELSE IF a[1] = b[1] THEN CompareCase(Tail(a), Tail(b))
  ELSE IF IsUpper(b[1]) THEN 0 - 1
  ELSE 1

\* String.prototype.localeCompare: negative, zero or positive
localeCompare(a, b) ==
  IF ComparePrimary(a, b) # 0 THEN ComparePrimary(a, b) ELSE CompareCase(a, b)

\* an ISO date string YYYY-MM-DD
Digit(n) == OtherChars[5 + n]
IsoDate(y, m, d) ==
  << Digit(y \div 1000), Digit((y \div 100) % 10), Digit((y \div 10) % 10),
     Digit(y % 10), "-", Digit(m \div 10), Digit(m % 10), "-",
     Digit(d \div 10), Digit(d % 10) >>

(***************************************************************************)
(* src/data/models.ts : labs, providers, getLab, getProvider; the catalogs *)
(***************************************************************************)
labs ==
  << [id |-> "anthropic", name |-> << "A", "n", "t", "h", "r", "o", "p", "i", "c" >>],
     [id |-> "openai",    name |-> << "O", "p", "e", "n", "A", "I" >>],
     [id |-> "google",    name |-> << "G", "o", "o", "g", "l", "e" >>],
     [id |-> "meta",      name |-> << "M", "e", "t", "a" >>],
     [id |-> "deepseek",  name |-> << "D", "e", "e", "p", "S", "e", "e", "k" >>],
     [id |-> "alibaba",   name |-> << "A", "l", "i", "b", "a", "b", "a" >>],
     [id |-> "mistral",   name |-> << "M", "i", "s", "t", "r", "a", "l" >>],
     [id |-> "cohere",    name |-> << "C", "o", "h", "e", "r", "e" >>],
     [id |-> "microsoft", name |-> << "M", "i", "c", "r", "o", "s", "o", "f", "t" >>],
     [id |-> "xai",       name |-> << "x", "A", "I" >>],
     [id |-> "moonshot",  name |-> << "M", "o", "o", "n", "s", "h", "o", "t", " ", "A", "I" >>],
     [id |-> "zhipu",     name |-> << "Z", "h", "i", "p", "u", " ", "A", "I" >>],
     [id |-> "minimax",   name |-> << "M", "i", "n", "i", "M", "a", "x" >>] >>

providers ==
  << [id |-> "anthropic", name |-> << "A", "n", "t", "h", "r", "o", "p", "i", "c" >>],
     [id |-> "openai",    name |-> << "O", "p", "e", "n", "A", "I" >>],
     [id |-> "google",    name |-> << "G", "o", "o", "g", "l", "e" >>],
     [id |-> "together",  name |-> << "T", "o", "g", "e", "t", "h", "e", "r", " ", "A", "I" >>],
     [id |-> "fireworks", name |-> << "F", "i", "r", "e", "w", "o", "r", "k", "s" >>],
     [id |-> "bedrock",   name |-> << "A", "W", "S", " ", "B", "e", "d", "r", "o", "c", "k" >>],
     [id |-> "azure",     name |-> << "A", "z", "u", "r", "e" >>],
     [id |-> "deepseek",  name |-> << "D", "e", "e", "p", "S", "e", "e", "k" >>],
     [id |-> "mistral",   name |-> << "M", "i", "s", "t", "r", "a", "l" >>],
     [id |-> "cohere",    name |-> << "C", "o", "h", "e", "r", "e" >>],
     [id |-> "vertex",    name |-> << "G", "o", "o", "g", "l", "e", " ", "V", "e", "r", "t", "e", "x" >>],
     [id |-> "xai",       name |-> << "x", "A", "I" >>],
     [id |-> "groq",      name |-> << "G", "r", "o", "q" >>],
     [id |-> "cerebras",  name |-> << "C", "e", "r", "e", "b", "r", "a", "s" >>] >>

\* what Array.prototype.find returns when no element matches
undefined == [ undefined |-> TRUE ]

\* table.find((e) => e.id === id): the first entry with this id
find(table, id) ==
  IF \E i \in 1..Len(table) : table[i].id = id
    THEN table[CHOOSE i \in 1..Len(table) :
                 /\ table[i].id = id
                 /\ \A j \in 1..(i - 1) : table[j].id # id]
    ELSE undefined

getProviderInLabs(id) == find(labs, id)

getProvider(id) == find(providers, id)

getLab(id) == find(labs, id)

\* getProvider(p.providerId)?.name ?? p.providerId
providerLabel(p) ==
  IF getProvider(p.providerId) # undefined
    THEN getProvider(p.providerId).name
    ELSE p.providerId

\* the value of getLab(id)?.name ?? "": labs.find((l) => l.id === id)
getLabName(id) ==
  IF \E i \in 1..Len(labs) : labs[i].id = id
    THEN labs[CHOOSE i \in 1..Len(labs) :
                /\ labs[i].id = id
                /\ \A j \in 1..(i - 1) : labs[j].id # id].name
    ELSE << >>

Offer(providerId, input, output, speed) ==
  [ providerId |-> providerId, costPer1MInput |-> input,
    costPer1MOutput |-> output, tokensPerSecond |-> speed ]

\* five entries of models, prices in cents
CatalogExcerpt ==
  << [ id |-> "gpt-4o", name |-> << "G", "P", "T", "-", "4", "o" >>,
       labId |-> "openai", supportsImages |-> TRUE, openWeights |-> FALSE,
       releaseDate |-> IsoDate(2024, 5, 13),
       scores |-> [ coding |-> 33, reasoning |-> 51, reasoningHle |-> 3,
                    math |-> 6, general |-> 73, multimodal |-> 54, elo |-> 1346 ],
       providers |-> << Offer("openai", 250, 1000, 134),
                        Offer("azure", 250, 1000, 170) >> ],
     [ id |-> "gpt-oss-120b",
       name |-> << "G", "P", "T", "-", "O", "S", "S", " ", "1", "2", "0", "B" >>,
       labId |-> "openai", supportsImages |-> FALSE, openWeights |-> TRUE,
       releaseDate |-> IsoDate(2025, 8, 5),
       scores |-> [ coding |-> 62, codingLive |-> 88, reasoning |-> 78,
                    reasoningHle |-> 19, math |-> 93, general |-> 81, elo |-> 1354 ],
       providers |-> << Offer("fireworks", 15, 60, 765),
                        Offer("cerebras", 35, 75, 2951),
                        Offer("groq", 15, 60, 500) >> ],
     [ id |-> "claude-opus-4-5",
       name |-> << "C", "l", "a", "u", "d", "e", " ", "O", "p", "u", "s", " ",
                   "4", ".", "5" >>,
       labId |-> "anthropic", supportsImages |-> TRUE, openWeights |-> FALSE,
       releaseDate |-> IsoDate(2025, 11, 24),
       scores |-> [ coding |-> 81, codingLive |-> 87, reasoning |-> 87,
                    reasoningHle |-> 28, math |-> 91, general |-> 90 ],
       providers |-> << Offer("anthropic", 500, 2500, 88),
                        Offer("bedrock", 500, 2500, 82),
                        Offer("vertex", 500, 2500, 75) >> ],
     [ id |-> "gemini-2.5-pro",
       name |-> << "G", "e", "m", "i", "n", "i", " ", "2", ".", "5", " ",
                   "P", "r", "o" >>,
       labId |-> "google", supportsImages |-> TRUE, openWeights |-> FALSE,
       releaseDate |-> IsoDate(2025, 6, 5),
       scores |-> [ coding |-> 64, codingLive |-> 80, reasoning |-> 84,
                    reasoningHle |-> 21, math |-> 88, general |-> 86,
                    elo |-> 1465 ],
       providers |-> << Offer("google", 125, 1000, 159),
                        Offer("vertex", 125, 1000, 139) >> ],
     [ id |-> "deepseek-v3",
       name |-> << "D", "e", "e", "p", "S", "e", "e", "k", " ", "V", "3" >>,
       labId |-> "deepseek", supportsImages |-> FALSE, openWeights |-> TRUE,
       releaseDate |-> IsoDate(2024, 12, 26),
       scores |-> [ codingLive |-> 36, reasoning |-> 56, reasoningHle |-> 4,
                    math |-> 26, general |-> 75 ],
       providers |-> << Offer("together", 40, 89, 75),
                        Offer("bedrock", 58, 168, 75),
                        Offer("vertex", 56, 168, 120) >> ] >>

\* the three-model catalog of the end-to-end scenario (specification, section
\* 8): A costs 30 at speed 40, B costs 2 at speed 150, C costs 10 at speed 80
ScenarioCatalog ==
  << [ id |-> "a", name |-> << "A" >>, labId |-> "scenario",
       supportsImages |-> FALSE, openWeights |-> FALSE,
       releaseDate |-> IsoDate(2025, 1, 1), scores |-> ScenarioScoresA,
       providers |-> << Offer("scenario", 3000, 3000, 40) >> ],
     [ id |-> "b", name |-> << "B" >>, labId |-> "scenario",
       supportsImages |-> FALSE, openWeights |-> FALSE,
       releaseDate |-> IsoDate(2025, 1, 2), scores |-> ScenarioScoresB,
       providers |-> << Offer("scenario", 200, 200, 150) >> ],
     [ id |-> "c", name |-> << "C" >>, labId |-> "scenario",
       supportsImages |-> FALSE, openWeights |-> FALSE,
       releaseDate |-> IsoDate(2025, 1, 3), scores |-> ScenarioScoresC,
       providers |-> << Offer("scenario", 1000, 1000, 80) >> ] >>

Catalogs == { CatalogExcerpt, ScenarioCatalog }

(***************************************************************************)
(* getLab and getProvider applied to an id, then what a caller makes of    *)
(* the result: the lab name of the creator sort and the search, the label  *)
(* of a provider                                                           *)
(***************************************************************************)
IdsOf(table) == { table[i].id : i \in 1..Len(table) }

\* the ids looked up: every id of the two tables, and ids of neither
LookupIds ==
  IdsOf(labs) \cup IdsOf(providers)
    \cup { "", "scenario", "OpenAI", "Anthropic", "open", "vertex-ai" }

InitLookup ==
  /\ lkTable \in { "labs", "providers" }
  /\ lkId \in LookupIds
  /\ lkOut = [ undefined |-> TRUE ]
  /\ lkText = << >>
  /\ lkPhase = "input"
  /\ IdleNorm
  /\ IdleScore
  /\ IdleCost
  /\ IdleHome
  /\ IdleBest
  /\ IdleDetail
  /\ IdleClicks
  /\ IdlePage

ApplyGetLab ==
  /\ lkPhase = "input"
  /\ lkTable = "labs"
  /\ lkOut' = getLab(lkId)
  /\ lkPhase' = "found"
  /\ UNCHANGED << lkTable, lkId, lkText, normVars, scoreVars, costVars,
                  homeVars, bestVars, detailVars, clickVars, pageVars >>

ApplyGetProvider ==
  /\ lkPhase = "input"
  /\ lkTable = "providers"
  /\ lkOut' = getProvider(lkId)
  /\ lkPhase' = "found"
  /\ UNCHANGED << lkTable, lkId, lkText, normVars, scoreVars, costVars,
                  homeVars, bestVars, detailVars, clickVars, pageVars >>

\* getLab(m.labId)?.name ?? ""
UseLabName ==
  /\ lkPhase = "found"
  /\ lkTable = "labs"
  /\ lkText' = getLabName(lkId)
  /\ lkPhase' = "used"
  /\ UNCHANGED << lkTable, lkId, lkOut, normVars, scoreVars, costVars,
                  homeVars, bestVars, detailVars, clickVars, pageVars >>

\* getProvider(p.providerId)?.name ?? p.providerId
UseProviderLabel ==
  /\ lkPhase = "found"
  /\ lkTable = "providers"
  /\ lkText' = providerLabel([providerId |-> lkId])
  /\ lkPhase' = "used"
  /\ UNCHANGED << lkTable, lkId, lkOut, normVars, scoreVars, costVars,
                  homeVars, bestVars, detailVars, clickVars, pageVars >>

NextLookup ==
  ApplyGetLab \/ ApplyGetProvider \/ UseLabName \/ UseProviderLabel

SpecLookup == InitLookup /\ [][NextLookup]_vars

(***************************************************************************)
(* bestCost, bestSpeed, costRange and speedRange applied to a model, then  *)
(* to the same model with its providers in another order                   *)
(***************************************************************************)
\* the longest list of providers
MaxProviders == 3

\* prices in cents: blended costs 5.00, 2.00 and 8.00
OfferPrices == { << 500, 500 >>, << 150, 350 >>, << 800, 800 >> }
OfferSpeeds == { 10, 40 }

Offers ==
  { Offer("openai", c[1], c[2], v) : c \in OfferPrices, v \in OfferSpeeds }

ProviderLists == UNION { [1..n -> Offers] : n \in 1..MaxProviders }

\* the results of the four helpers on a model
BestOf(model) ==
  [ bestCost |-> bestCost(model), bestSpeed |-> bestSpeed(model),
    costRange |-> costRange(model), speedRange |-> speedRange(model) ]

\* the bijections of 1..n
Orders(n) == { f \in [1..n -> 1..n] : \A i, j \in 1..n : f[i] = f[j] => i = j }

InitBest ==
  /\ bModel \in { [providers |-> ps] : ps \in ProviderLists }
  /\ bOrder = bModel
  /\ bOut = [bestCost |-> 0, bestSpeed |-> 0,
             costRange |-> << 0, 0 >>, speedRange |-> << 0, 0 >>]
  /\ bOrderOut = bOut
  /\ bPhase = "input"
  /\ IdleNorm
  /\ IdleScore
  /\ IdleCost
  /\ IdleHome
  /\ IdleDetail
  /\ IdleClicks
  /\ IdleLookup
  /\ IdlePage

ApplyBest ==
  /\ bPhase = "input"
  /\ bOut' = BestOf(bModel)
  /\ bPhase' = "applied"
  /\ UNCHANGED << bModel, bOrder, bOrderOut,
                  normVars, scoreVars, costVars, homeVars, detailVars, clickVars, lookupVars, pageVars >>

ApplyBestReordered ==
  /\ bPhase = "applied"
  /\ \E f \in Orders(Len(bModel.providers)) :
       /\ bOrder' = [providers |->
                       [ i \in 1..Len(bModel.providers) |-> bModel.providers[f[i]] ]]
       /\ bOrderOut' = BestOf(bOrder')
  /\ bPhase' = "reordered"
  /\ UNCHANGED << bModel, bOut, normVars, scoreVars, costVars, homeVars,
                  detailVars, clickVars, lookupVars, pageVars >>

NextBest == ApplyBest \/ ApplyBestReordered

SpecBest == InitBest /\ [][NextBest]_vars

(***************************************************************************)
(* src/app/page.tsx : Home, the filter / sort / search pipeline            *)
(***************************************************************************)
\* sortCol === null
NoSort == "null"
SortColumns == { "model", "creator", "score", "cost", "speed", "released" }

filteredStrictScore ==
  LET Keep(m) ==
        /\ overallScore(m) > minScore
        /\ bestSpeed(m) >= minSpeedVal
        /\ (~requireVision \/ m.supportsImages)
        /\ (~requireOpenWeights \/ m.openWeights)
  IN  SelectSeq(models, Keep)

filteredMaxCost ==
  LET Keep(m) ==
        /\ overallScore(m) >= minScore
        /\ bestSpeed(m) >= minSpeedVal
        /\ bestCost(m) <= 500 * CostScale
        /\ (~requireVision \/ m.supportsImages)
        /\ (~requireOpenWeights \/ m.openWeights)
  IN  SelectSeq(models, Keep)

filteredByProvider ==
  LET Keep(m) ==
        /\ overallScore(m) >= minScore
        /\ bestSpeed(m) >= minSpeedVal
        /\ (~requireVision \/ m.supportsImages)
        /\ (~requireOpenWeights \/ m.openWeights)
        /\ \E k \in 1..Len(m.providers) : m.providers[k].providerId = "vertex"
  IN  SelectSeq(models, Keep)

\* models.filter(...)
filtered ==
  LET Keep(m) ==
        /\ overallScore(m) >= minScore
        /\ bestSpeed(m) >= minSpeedVal
        /\ (~requireVision \/ m.supportsImages)
        /\ (~requireOpenWeights \/ m.openWeights)
  IN  SelectSeq(models, Keep)

CompareRowsDirectionFlipped(col, asc, a, b) ==
  IF col = NoSort
    THEN overallScore(b) - overallScore(a)
    ELSE LET cmp ==
               CASE col = "model"    -> localeCompare(a.name, b.name)
                 [] col = "creator"  ->
                      localeCompare(getLabName(a.labId), getLabName(b.labId))
                 [] col = "score"    -> overallScore(a) - overallScore(b)
                 [] col = "cost"     -> bestCost(a) - bestCost(b)
                 [] col = "speed"    -> bestSpeed(a) - bestSpeed(b)
                 [] col = "released" -> localeCompare(a.releaseDate, b.releaseDate)
                 [] OTHER            -> 0
         IN  IF asc THEN 0 - cmp ELSE cmp

CompareRowsDefaultAscending(col, asc, a, b) ==
  IF col = NoSort
    THEN overallScore(a) - overallScore(b)
    ELSE LET cmp ==
               CASE col = "model"    -> localeCompare(a.name, b.name)
                 [] col = "creator"  ->
                      localeCompare(getLabName(a.labId), getLabName(b.labId))
                 [] col = "score"    -> overallScore(a) - overallScore(b)
                 [] col = "cost"     -> bestCost(a) - bestCost(b)
                 [] col = "speed"    -> bestSpeed(a) - bestSpeed(b)
                 [] col = "released" -> localeCompare(a.releaseDate, b.releaseDate)
                 [] OTHER            -> 0
         IN  IF asc THEN cmp ELSE 0 - cmp

CompareRowsNeverNegated(col, asc, a, b) ==
  IF col = NoSort
    THEN overallScore(b) - overallScore(a)
    ELSE CASE col = "model"    -> localeCompare(a.name, b.name)
           [] col = "creator"  ->
                localeCompare(getLabName(a.labId), getLabName(b.labId))
           [] col = "score"    -> overallScore(a) - overallScore(b)
           [] col = "cost"     -> bestCost(a) - bestCost(b)
           [] col = "speed"    -> bestSpeed(a) - bestSpeed(b)
           [] col = "released" -> localeCompare(a.releaseDate, b.releaseDate)
           [] OTHER            -> 0

\* the comparator handed to sort: the switch on sortCol, or the default order
CompareRows(col, asc, a, b) ==
  IF col = NoSort
    THEN overallScore(b) - overallScore(a)
    ELSE LET cmp ==
               CASE col = "model"    -> localeCompare(a.name, b.name)
                 [] col = "creator"  ->
                      localeCompare(getLabName(a.labId), getLabName(b.labId))
                 [] col = "score"    -> overallScore(a) - overallScore(b)
                 [] col = "cost"     -> bestCost(a) - bestCost(b)
                 [] col = "speed"    -> bestSpeed(a) - bestSpeed(b)
                 [] col = "released" -> localeCompare(a.releaseDate, b.releaseDate)
                 [] OTHER            -> 0
         IN  IF asc THEN cmp ELSE 0 - cmp

RECURSIVE InsertRowAheadOfTies(_, _, _, _)
InsertRowAheadOfTies(col, asc, rows, x) ==
  IF rows = << >> THEN << x >>
  ELSE LET last == rows[Len(rows)]
       IN  IF CompareRows(col, asc, last, x) >= 0
             THEN Append(InsertRowAheadOfTies(col, asc,
                                              SubSeq(rows, 1, Len(rows) - 1), x),
                         last)
             ELSE Append(rows, x)

RECURSIVE InsertRow(_, _, _, _)
\* x goes behind every row that does not compare greater than it
InsertRow(col, asc, rows, x) ==
  IF rows = << >> THEN << x >>
  ELSE LET last == rows[Len(rows)]
       IN  IF CompareRows(col, asc, last, x) > 0
             THEN Append(InsertRow(col, asc, SubSeq(rows, 1, Len(rows) - 1), x), last)
             ELSE Append(rows, x)

RECURSIVE SortRows(_, _, _)
\* [...rows].sort(compare): Array.prototype.sort is stable
SortRows(col, asc, rows) ==
  IF rows = << >> THEN << >>
  ELSE InsertRow(col, asc,
                 SortRows(col, asc, SubSeq(rows, 1, Len(rows) - 1)),
                 rows[Len(rows)])

sortedOfCatalog == SortRows(sortCol, sortAsc, models)

\* sortCol ? [...filtered].sort(by column) : [...filtered].sort(by score desc)
sorted == SortRows(sortCol, sortAsc, filtered)

searchedNameOnly ==
  IF searchQuery # << >>
    THEN LET q == toLowerCase(searchQuery)
             Match(m) == includes(toLowerCase(m.name), q)
         IN  SelectSeq(sorted, Match)
    ELSE sorted

\* searchQuery ? sorted.filter(name or lab name includes query) : sorted
searched ==
  IF searchQuery # << >>
    THEN LET q == toLowerCase(searchQuery)
             Match(m) ==
               \/ includes(toLowerCase(m.name), q)
               \/ includes(toLowerCase(getLabName(m.labId)), q)
         IN  SelectSeq(sorted, Match)
    ELSE sorted

emptyWhenNothingFound == Len(searched) = 0

\* the empty prop of the two sliders: filtered.length === 0
empty == Len(filtered) = 0

\* MinScoreSlider, the static label below the track
staticLabel(isEmpty, label) ==
  IF isEmpty THEN "No Possible Models" ELSE label

\* the static labels of the score slider and the speed slider
scoreSliderLabel == staticLabel(empty, "Minimum Intelligence")
speedSliderLabel == staticLabel(empty, "Minimum Best Speed")

\* the positions a slider is dragged to: MaxSliderIdx + 1 of them, from the
\* bottom to the top of its range
MaxSliderIdx == 5
SliderStops(min, max) ==
  { min + ((max - min) * i) \div MaxSliderIdx : i \in 0..MaxSliderIdx }

\* what is typed into the search box
Queries == { << >>, << "g", "p", "t" >>, << "O", "p" >>, << "a" >> }

Init ==
  /\ models \in Catalogs
  /\ minScore = 70
  /\ minSpeedVal = 0
  /\ requireVision = FALSE
  /\ requireOpenWeights = FALSE
  /\ sortCol = "score"
  /\ sortAsc = FALSE
  /\ searchQuery = << >>
  /\ searchFocused = FALSE
  /\ IdleNorm
  /\ IdleScore
  /\ IdleCost
  /\ IdleBest
  /\ IdleDetail
  /\ IdleClicks
  /\ IdleLookup
  /\ IdlePage

\* <MinScoreSlider value={minScore} onChange={setMinScore} />
SetMinScore ==
  /\ \E v \in SliderStops(0, 100) : minScore' = v
  /\ UNCHANGED << models, minSpeedVal, requireVision, requireOpenWeights,
                  sortCol, sortAsc, searchQuery, searchFocused,
                  normVars, scoreVars, costVars, bestVars, detailVars, clickVars, lookupVars, pageVars >>

\* <MinScoreSlider value={minSpeedVal} onChange={setMinSpeedVal} max={300} />
SetMinSpeedVal ==
  /\ \E v \in SliderStops(0, 300) : minSpeedVal' = v
  /\ UNCHANGED << models, minScore, requireVision, requireOpenWeights,
                  sortCol, sortAsc, searchQuery, searchFocused,
                  normVars, scoreVars, costVars, bestVars, detailVars, clickVars, lookupVars, pageVars >>

ToggleVision ==
  /\ requireVision' = ~requireVision
  /\ UNCHANGED << models, minScore, minSpeedVal, requireOpenWeights,
                  sortCol, sortAsc, searchQuery, searchFocused,
                  normVars, scoreVars, costVars, bestVars, detailVars, clickVars, lookupVars, pageVars >>

ToggleOpenWeights ==
  /\ requireOpenWeights' = ~requireOpenWeights
  /\ UNCHANGED << models, minScore, minSpeedVal, requireVision,
                  sortCol, sortAsc, searchQuery, searchFocused,
                  normVars, scoreVars, costVars, bestVars, detailVars, clickVars, lookupVars, pageVars >>

ResetMinScoreZero ==
  /\ minScore # 70 \/ minSpeedVal # 0 \/ requireVision \/ requireOpenWeights
  /\ minScore' = 0
  /\ minSpeedVal' = 0
  /\ requireVision' = FALSE
  /\ requireOpenWeights' = FALSE
  /\ UNCHANGED << models, sortCol, sortAsc, searchQuery, searchFocused,
                  normVars, scoreVars, costVars, bestVars, detailVars, clickVars, lookupVars, pageVars >>

\* the Reset button takes clicks only when a filter is off its default
Reset ==
  /\ minScore # 70 \/ minSpeedVal # 0 \/ requireVision \/ requireOpenWeights
  /\ minScore' = 70
  /\ minSpeedVal' = 0
  /\ requireVision' = FALSE
  /\ requireOpenWeights' = FALSE
  /\ UNCHANGED << models, sortCol, sortAsc, searchQuery, searchFocused,
                  normVars, scoreVars, costVars, bestVars, detailVars, clickVars, lookupVars, pageVars >>

toggleSortFlipsDirection(col) ==
  /\ IF sortCol = col
       THEN sortAsc' = ~sortAsc /\ sortCol' = sortCol
       ELSE sortCol' = col /\ sortAsc' = FALSE
  /\ UNCHANGED << models, minScore, minSpeedVal, requireVision,
                  requireOpenWeights, searchQuery, searchFocused,
                  normVars, scoreVars, costVars, bestVars, detailVars, lookupVars, pageVars >>

\* a click on the header of column col of the models table
toggleSort(col) ==
  /\ IF sortCol = col
       THEN IF sortAsc
              THEN sortCol' = NoSort /\ sortAsc' = sortAsc
              ELSE sortAsc' = TRUE /\ sortCol' = sortCol
       ELSE sortCol' = col /\ sortAsc' = FALSE
  /\ UNCHANGED << models, minScore, minSpeedVal, requireVision,
                  requireOpenWeights, searchQuery, searchFocused,
                  normVars, scoreVars, costVars, bestVars, detailVars, lookupVars, pageVars >>

ToggleSort ==
  /\ \E col \in SortColumns : toggleSort(col)
  /\ UNCHANGED clickVars

FocusSearch ==
  /\ ~searchFocused
  /\ searchFocused' = TRUE
  /\ UNCHANGED << models, minScore, minSpeedVal, requireVision,
                  requireOpenWeights, sortCol, sortAsc, searchQuery,
                  normVars, scoreVars, costVars, bestVars, detailVars, clickVars, lookupVars, pageVars >>

BlurSearch ==
  /\ searchFocused
  /\ searchFocused' = FALSE
  /\ UNCHANGED << models, minScore, minSpeedVal, requireVision,
                  requireOpenWeights, sortCol, sortAsc, searchQuery,
                  normVars, scoreVars, costVars, bestVars, detailVars, clickVars, lookupVars, pageVars >>

\* typing: onChange={(e) => setSearchQuery(e.target.value)}
SetSearchQuery ==
  /\ searchFocused
  /\ \E q \in Queries : searchQuery' = q
  /\ UNCHANGED << models, minScore, minSpeedVal, requireVision,
                  requireOpenWeights, sortCol, sortAsc, searchFocused,
                  normVars, scoreVars, costVars, bestVars, detailVars, clickVars, lookupVars, pageVars >>

\* the clear button is there when searchQuery is not empty, and takes clicks
\* when the box is not focused
ClearSearch ==
  /\ searchQuery # << >>
  /\ ~searchFocused
  /\ searchQuery' = << >>
  /\ UNCHANGED << models, minScore, minSpeedVal, requireVision,
                  requireOpenWeights, sortCol, sortAsc, searchFocused,
                  normVars, scoreVars, costVars, bestVars, detailVars, clickVars, lookupVars, pageVars >>

Next ==
  \/ SetMinScore
  \/ SetMinSpeedVal
  \/ ToggleVision
  \/ ToggleOpenWeights
  \/ Reset
  \/ ToggleSort
  \/ FocusSearch
  \/ BlurSearch
  \/ SetSearchQuery
  \/ ClearSearch

Spec == Init /\ [][Next]_vars

(***************************************************************************)
(* src/components/ModelDetail.tsx : the provider table's sort; the clicks  *)
(* on the column headers of the two tables                                 *)
(***************************************************************************)
ProvSortColumns == { "provider", "input", "output", "blended", "speed" }

\* a click on the header of column col of the provider table
toggleProvSort(col) ==
  /\ IF provSortCol = col
       THEN IF provSortAsc
              THEN provSortCol' = NoSort /\ provSortAsc' = provSortAsc
              ELSE provSortAsc' = TRUE /\ provSortCol' = provSortCol
       ELSE provSortCol' = col /\ provSortAsc' = FALSE
  /\ UNCHANGED << normVars, scoreVars, costVars, homeVars, bestVars, lookupVars, pageVars >>

\* the run of clicks after one more click, on col: the third click of a run
\* is followed by the first of the next
Clicked(run, col) ==
  IF run.col = col THEN [col |-> col, n |-> (run.n % 3) + 1]
                   ELSE [col |-> col, n |-> 1]

ClickSort ==
  \E col \in SortColumns :
    /\ toggleSort(col)
    /\ homeClicks' = Clicked(homeClicks, col)
    /\ UNCHANGED provClicks

ClickProvSort ==
  \E col \in ProvSortColumns :
    /\ toggleProvSort(col)
    /\ provClicks' = Clicked(provClicks, col)
    /\ UNCHANGED homeClicks

NextSortCycle == ClickSort \/ ClickProvSort

SpecSortCycle == Init /\ [][NextSortCycle]_vars

(***************************************************************************)
(* The detail modal: Home's selectedModel and closingModal, the address's  *)
(* hash, and the one ModelDetail that is mounted while a model is          *)
(* selected.  ModelDetail is rendered without a key, so a selection that   *)
(* replaces another keeps the mounted instance and its phase.  An event    *)
(* handler runs on the state the handlers before it left (a render is      *)
(* committed between two events).  The callbacks that the code hands to    *)
(* requestAnimationFrame and setTimeout run later, in any order.           *)
(***************************************************************************)
\* close timers and hashchange events that may be waiting at one time
MaxTimers == 2
MaxHashEvents == 1

\* what the address can be made to name: nothing, a word that is no model's
\* id, the first and the last model of the catalog
NavHashes ==
  { "", "no-such-model" } \cup { models[i].id : i \in { 1, Len(models) } }

\* {selectedModel && <ModelDetail model={selectedModel} .../>}: the modal is
\* mounted by a selection that follows none, in phase "enter" with its first
\* animation frame requested, and that is an opening: the calls of
\* onCloseStart and onClose are counted from there; a close counts as
\* requested for the selected model from when it got selected
Select(model) ==
  /\ selectedModel' = model
  /\ IF selectedModel = null
       THEN /\ modalPhase' = "enter"
            /\ frames' = "outer"
            /\ starts' = 0
            /\ closes' = 0
       ELSE UNCHANGED << modalPhase, frames, starts, closes >>
  /\ requested' = (requested /\ selectedModel = model)

openFromHashClearsUnknown ==
  LET model == find(models, hash)
  IN  IF hash = "" \/ model = undefined
        THEN /\ selectedModel' = null
             /\ UNCHANGED << closingModal, modalPhase, frames, openingVars >>
        ELSE Select(model) /\ closingModal' = FALSE

\* openFromHash
openFromHash ==
  LET model == find(models, hash)
  IN  IF hash = "" \/ model = undefined
        THEN UNCHANGED << selectedModel, closingModal, modalPhase, frames,
                          openingVars >>
        ELSE Select(model) /\ closingModal' = FALSE

\* the page loads with some hash in its address: the effect runs openFromHash
\* and registers it for hashchange
InitModal ==
  /\ models \in Catalogs
  /\ minScore = 70
  /\ minSpeedVal = 0
  /\ requireVision = FALSE
  /\ requireOpenWeights = FALSE
  /\ sortCol = "score"
  /\ sortAsc = FALSE
  /\ searchQuery = << >>
  /\ searchFocused = FALSE
  /\ selectedModel = null
  /\ closingModal = FALSE
  /\ hash \in NavHashes
  /\ listening = FALSE
  /\ hashEvents = 0
  /\ modalPhase = "unmounted"
  /\ frames = "none"
  /\ timers = 0
  /\ IdleOpening
  /\ IdleTabs
  /\ IdleRender
  /\ IdleNorm
  /\ IdleScore
  /\ IdleCost
  /\ IdleBest
  /\ IdleDetail
  /\ IdleClicks
  /\ IdleLookup

Mount ==
  /\ ~listening
  /\ listening' = TRUE
  /\ openFromHash
  /\ UNCHANGED << hash, hashEvents, timers >>
  /\ UNCHANGED << normVars, scoreVars, costVars, homeVars, bestVars,
                  detailVars, clickVars, lookupVars, tabVars,
                  renderVars >>

\* openModel(model), from a row of the table or a mark of a chart; the modal,
\* while mounted, covers the page
OpenModel ==
  /\ listening
  /\ selectedModel = null
  /\ \E j \in 1..Len(filtered) :
       LET model == filtered[j]
       IN  /\ Select(model)
           /\ closingModal' = FALSE
           /\ hash' = model.id
           /\ IF hash = model.id
                THEN UNCHANGED hashEvents
                ELSE /\ hashEvents < MaxHashEvents
                     /\ hashEvents' = hashEvents + 1
  /\ UNCHANGED << listening, timers >>
  /\ UNCHANGED << normVars, scoreVars, costVars, homeVars, bestVars,
                  detailVars, clickVars, lookupVars, tabVars,
                  renderVars >>

\* the address is given another hash (history navigation, an edited address)
Navigate ==
  /\ listening
  /\ hashEvents < MaxHashEvents
  /\ \E h \in NavHashes \ { hash } : hash' = h
  /\ hashEvents' = hashEvents + 1
  /\ UNCHANGED << selectedModel, closingModal, listening, modalPhase, frames,
                  timers, openingVars >>
  /\ UNCHANGED << normVars, scoreVars, costVars, homeVars, bestVars,
                  detailVars, clickVars, lookupVars, tabVars,
                  renderVars >>

\* a hashchange event is delivered to openFromHash
HashChange ==
  /\ listening
  /\ hashEvents > 0
  /\ hashEvents' = hashEvents - 1
  /\ openFromHash
  /\ UNCHANGED << hash, listening, timers >>
  /\ UNCHANGED << normVars, scoreVars, costVars, homeVars, bestVars,
                  detailVars, clickVars, lookupVars, tabVars,
                  renderVars >>

\* the callback of the effect's requestAnimationFrame requests the next frame
FrameOuter ==
  /\ frames = "outer"
  /\ frames' = "inner"
  /\ UNCHANGED << selectedModel, closingModal, hash, listening, hashEvents,
                  modalPhase, timers, openingVars >>
  /\ UNCHANGED << normVars, scoreVars, costVars, homeVars, bestVars,
                  detailVars, clickVars, lookupVars, tabVars,
                  renderVars >>

\* the callback of the second frame: setPhase("open")
FrameInner ==
  /\ frames = "inner"
  /\ frames' = "none"
  /\ modalPhase' = "open"
  /\ UNCHANGED << selectedModel, closingModal, hash, listening, hashEvents,
                  timers, openingVars >>
  /\ UNCHANGED << normVars, scoreVars, costVars, homeVars, bestVars,
                  detailVars, clickVars, lookupVars, tabVars,
                  renderVars >>

\* handleClose, with onCloseStart (startClosing) and setTimeout(onClose, 300)
handleClose ==
  /\ requested' = TRUE
  /\ IF modalPhase = "closing"
       THEN UNCHANGED << closingModal, modalPhase, timers, starts >>
       ELSE /\ timers < MaxTimers
            /\ closingModal' = TRUE
            /\ starts' = starts + 1
            /\ modalPhase' = "closing"
            /\ timers' = timers + 1
  /\ UNCHANGED << selectedModel, hash, listening, hashEvents, frames, closes >>
  /\ UNCHANGED << normVars, scoreVars, costVars, homeVars, bestVars,
                  detailVars, clickVars, lookupVars, tabVars,
                  renderVars >>

\* the Escape key, a click outside the modal's card, the close button: each
\* is there while ModelDetail is mounted
PressEscape ==
  /\ selectedModel # null
  /\ handleClose

ClickBackdrop ==
  /\ selectedModel # null
  /\ handleClose

ClickCloseButton ==
  /\ selectedModel # null
  /\ handleClose

\* a timer of handleClose fires: onClose is closeModel, and ModelDetail is
\* unmounted (its cleanup cancels the first frame; a second frame still due
\* finds no component to update), so that its state is gone: the next one
\* mounted starts from useState's arguments
TimerFires ==
  /\ timers > 0
  /\ timers' = timers - 1
  /\ closes' = closes + 1
  /\ selectedModel' = null
  /\ closingModal' = FALSE
  /\ hash' = ""
  /\ modalPhase' = "unmounted"
  /\ frames' = "none"
  /\ provSortCol' = "blended"
  /\ provSortAsc' = TRUE
  /\ UNCHANGED << listening, hashEvents, requested, starts >>
  /\ UNCHANGED << normVars, scoreVars, costVars, homeVars, bestVars,
                  clickVars, lookupVars, tabVars,
                  renderVars >>

NextModal ==
  \/ Mount
  \/ OpenModel
  \/ Navigate
  \/ HashChange
  \/ FrameOuter
  \/ FrameInner
  \/ PressEscape
  \/ ClickBackdrop
  \/ ClickCloseButton
  \/ TimerFires

SpecModal == InitModal /\ [][NextModal]_vars

(***************************************************************************)
(* Arrays.  An array is an object that several names can refer to: filter, *)
(* spread and slice make a new array, sort orders the array it is called   *)
(* on, in place, and returns that array.  A render pass is followed        *)
(* through the arrays it makes and the names it gives them.                *)
(*   arrays.ref: the array that each name refers to                        *)
(*   arrays.val: the elements of each array                                *)
(* An array is called by the name that it was made under.                  *)
(***************************************************************************)
ArrayNames ==
  { "data.models", "data.labs", "data.providers", "model.providers",
    "Home.filtered", "Home.sorted", "Home.searched",
    "models", "sorted", "topN",
    "speedProviders", "costProviders", "sortedProviders" }

\* no array has been made
NoArrays ==
  [ ref |-> [ n \in ArrayNames |-> n ], val |-> [ a \in ArrayNames |-> << >> ] ]

Get(arrays, name) == arrays.val[arrays.ref[name]]

\* name refers to a new array that holds elements
NewArray(arrays, name, elements) ==
  [ ref |-> [ n \in ArrayNames |-> IF n = name THEN name ELSE arrays.ref[n] ],
    val |-> [ a \in ArrayNames |->
              IF a = name THEN elements ELSE arrays.val[a] ] ]

\* const dst = src, and a prop dst={src}: another name for the same array
Refer(arrays, src, dst) ==
  [ ref |-> [ n \in ArrayNames |->
              IF n = dst THEN arrays.ref[src] ELSE arrays.ref[n] ],
    val |-> arrays.val ]

\* Array.prototype.sort on rows: the rows in the order of compare, rows that
\* compare equal in the order they had (the sort is stable); each row is put
\* in its place among those before it. a \ominus b is the comparator's result
\* for (a, b): negative when a goes first, positive when b goes first
StableSort(rows, _ \ominus _) ==
  LET RECURSIVE Insert(_, _)
      Insert(done, row) ==
        IF done = << >> \/ (done[Len(done)] \ominus row) <= 0
          THEN Append(done, row)
          ELSE Append(Insert(SubSeq(done, 1, Len(done) - 1), row),
                      done[Len(done)])
      RECURSIVE Sorted(_)
      Sorted(n) == IF n = 0 THEN << >> ELSE Insert(Sorted(n - 1), rows[n])
  IN  Sorted(Len(rows))

\* const dst = src.filter(keep), kept being the rows of src that keep accepts
ArrayFilter(arrays, dst, kept) == NewArray(arrays, dst, kept)

ArraySpreadSameArray(arrays, src, dst) == Refer(arrays, src, dst)

\* const dst = [...src]
ArraySpread(arrays, src, dst) == NewArray(arrays, dst, Get(arrays, src))

\* name.sort(compare), a \ominus b being compare(a, b)
ArraySort(arrays, name, _ \ominus _) ==
  [ ref |-> arrays.ref,
    val |-> [ a \in ArrayNames |->
              IF a = arrays.ref[name]
                THEN StableSort(arrays.val[a], \ominus)
                ELSE arrays.val[a] ] ]

\* const dst = src.slice(0, end)
ArraySlice(arrays, src, dst, end) ==
  LET rows == Get(arrays, src)
  IN  NewArray(arrays, dst, SubSeq(rows, 1, Min(end, Len(rows))))

(***************************************************************************)
(* RankingTabs and its Chart (the variant with the cost tab), which Home   *)
(* renders with models={filtered}                                          *)
(***************************************************************************)
TABS == << "intelligence", "speed", "cost" >>
MODEL_COUNT == 8

\* tab swaps that may be scheduled at one time
MaxTabTimers == 1

\* ten entries of models, prices in cents: more than MODEL_COUNT, with equal
\* scores, costs and speeds among them
RankingCatalog ==
  << [ id |-> "gpt-5.1",
       name |-> << "G", "P", "T", "-", "5", ".", "1" >>,
       labId |-> "openai", supportsImages |-> TRUE, openWeights |-> FALSE,
       releaseDate |-> IsoDate(2025, 11, 12),
       scores |-> [ coding |-> 76, codingLive |-> 87, reasoning |-> 87, reasoningHle |-> 27, math |-> 94, general |-> 87, elo |-> 1458 ],
       providers |-> << Offer("openai", 125, 1000, 124),
                        Offer("azure", 125, 1000, 136) >> ],
     [ id |-> "gpt-5.2",
       name |-> << "G", "P", "T", "-", "5", ".", "2" >>,
       labId |-> "openai", supportsImages |-> TRUE, openWeights |-> FALSE,
       releaseDate |-> IsoDate(2025, 12, 11),
       scores |-> [ coding |-> 80, codingLive |-> 89, reasoning |-> 90, reasoningHle |-> 35, math |-> 99, general |-> 87, elo |-> 1441 ],
       providers |-> << Offer("openai", 175, 1400, 87),
                        Offer("azure", 175, 1400, 88) >> ],
     [ id |-> "claude-opus-4-5",
       name |-> << "C", "l", "a", "u", "d", "e", " ", "O", "p", "u", "s", " ", "4", ".", "5" >>,
       labId |-> "anthropic", supportsImages |-> TRUE, openWeights |-> FALSE,
       releaseDate |-> IsoDate(2025, 11, 24),
       scores |-> [ coding |-> 81, codingLive |-> 87, reasoning |-> 87, reasoningHle |-> 28, math |-> 91, general |-> 90 ],
       providers |-> << Offer("anthropic", 500, 2500, 88),
                        Offer("bedrock", 500, 2500, 82),
                        Offer("vertex", 500, 2500, 75) >> ],
     [ id |-> "claude-opus-4-6",
       name |-> << "C", "l", "a", "u", "d", "e", " ", "O", "p", "u", "s", " ", "4", ".", "6" >>,
       labId |-> "anthropic", supportsImages |-> TRUE, openWeights |-> FALSE,
       releaseDate |-> IsoDate(2026, 2, 5),
       scores |-> [ coding |-> 81, reasoning |-> 90, reasoningHle |-> 37, math |-> 100, multimodal |-> 74 ],
       providers |-> << Offer("anthropic", 500, 2500, 73),
                        Offer("bedrock", 500, 2500, 67),
                        Offer("vertex", 500, 2500, 56) >> ],
     [ id |-> "gemini-3-pro",
       name |-> << "G", "e", "m", "i", "n", "i", " ", "3", " ", "P", "r", "o" >>,
       labId |-> "google", supportsImages |-> TRUE, openWeights |-> FALSE,
       releaseDate |-> IsoDate(2025, 11, 18),
       scores |-> [ coding |-> 76, codingLive |-> 92, reasoning |-> 91, reasoningHle |-> 37, math |-> 96, general |-> 90, elo |-> 1492 ],
       providers |-> << Offer("google", 200, 1200, 127),
                        Offer("vertex", 200, 1200, 142) >> ],
     [ id |-> "gemini-3-flash",
       name |-> << "G", "e", "m", "i", "n", "i", " ", "3", " ", "F", "l", "a", "s", "h" >>,
       labId |-> "google", supportsImages |-> TRUE, openWeights |-> FALSE,
       releaseDate |-> IsoDate(2025, 12, 17),
       scores |-> [ coding |-> 78, codingLive |-> 91, reasoning |-> 90, reasoningHle |-> 35, math |-> 97, general |-> 89 ],
       providers |-> << Offer("google", 50, 300, 215),
                        Offer("vertex", 50, 300, 209) >> ],
     [ id |-> "gemini-3.1-pro",
       name |-> << "G", "e", "m", "i", "n", "i", " ", "3", ".", "1", " ", "P", "r", "o" >>,
       labId |-> "google", supportsImages |-> TRUE, openWeights |-> FALSE,
       releaseDate |-> IsoDate(2026, 2, 19),
       scores |-> [ coding |-> 81, reasoning |-> 94, reasoningHle |-> 45 ],
       providers |-> << Offer("google", 200, 1200, 104),
                        Offer("vertex", 200, 1200, 130) >> ],
     [ id |-> "grok-4",
       name |-> << "G", "r", "o", "k", " ", "4" >>,
       labId |-> "xai", supportsImages |-> TRUE, openWeights |-> FALSE,
       releaseDate |-> IsoDate(2025, 7, 10),
       scores |-> [ codingLive |-> 82, reasoning |-> 88, reasoningHle |-> 24, math |-> 93, general |-> 87 ],
       providers |-> << Offer("xai", 300, 1500, 36) >> ],
     [ id |-> "qwen3.5-397b",
       name |-> << "Q", "w", "e", "n", "3", ".", "5", " ", "3", "9", "7", "B" >>,
       labId |-> "alibaba", supportsImages |-> TRUE, openWeights |-> TRUE,
       releaseDate |-> IsoDate(2026, 2, 16),
       scores |-> [ coding |-> 76, codingLive |-> 84, reasoning |-> 89, reasoningHle |-> 27, math |-> 91, general |-> 88, elo |-> 1450 ],
       providers |-> << Offer("together", 60, 360, 74) >> ],
     [ id |-> "kimi-k2.5",
       name |-> << "K", "i", "m", "i", " ", "K", "2", ".", "5" >>,
       labId |-> "moonshot", supportsImages |-> TRUE, openWeights |-> TRUE,
       releaseDate |-> IsoDate(2026, 1, 27),
       scores |-> [ coding |-> 77, codingLive |-> 85, reasoning |-> 88, reasoningHle |-> 29, math |-> 96, general |-> 87, elo |-> 1449 ],
       providers |-> << Offer("together", 50, 280, 45),
                        Offer("fireworks", 60, 300, 345) >> ] >>

getValue(model, t) ==
  IF t = "intelligence" THEN overallScore(model)
  ELSE IF t = "speed" THEN bestSpeed(model)
  ELSE bestCost(model)

CompareBarsHighestFirst(t, a, b) == getValue(b, t) - getValue(a, t)

\* the comparator of Chart's sort: cheapest first on the cost tab, highest
\* value first on the others
CompareBars(t, a, b) ==
  IF t = "cost"
    THEN bestCost(a) - bestCost(b)
    ELSE getValue(b, t) - getValue(a, t)

\* Chart: sorted = [...models].sort(...), topN = sorted.slice(0, MODEL_COUNT)
Chart(arrays, t) ==
  ArraySlice(
    ArraySort(ArraySpread(arrays, "models", "sorted"),
              "sorted", LAMBDA a, b : CompareBars(t, a, b)),
    "sorted", "topN", MODEL_COUNT)

\* the arrays that Chart is rendered with: its prop models is rows
ChartProps(rows) == NewArray(NoArrays, "models", rows)

\* the bars of the chart for the rows and the tab
topN(rows, t) == Get(Chart(ChartProps(rows), t), "topN")

\* barCount = Math.min(MODEL_COUNT, models.length)
barCount(rows) == MathMin(<< MODEL_COUNT, Len(rows) >>)

InitChart ==
  /\ models = RankingCatalog
  /\ minScore = 70
  /\ minSpeedVal = 0
  /\ requireVision = FALSE
  /\ requireOpenWeights = FALSE
  /\ sortCol = "score"
  /\ sortAsc = FALSE
  /\ searchQuery = << >>
  /\ searchFocused = FALSE
  /\ IdleNorm
  /\ IdleScore
  /\ IdleCost
  /\ IdleBest
  /\ IdleDetail
  /\ IdleClicks
  /\ IdleLookup
  /\ IdlePage

\* switchTab(next): the swap is scheduled 200 ms ahead
SwitchTab ==
  /\ Len(tabTimers) < MaxTabTimers
  /\ \E next \in { TABS[i] : i \in 1..Len(TABS) } :
       /\ next # tab
       /\ tabTimers' = Append(tabTimers, next)
  /\ UNCHANGED << tab, normVars, scoreVars, costVars, homeVars, bestVars,
                  detailVars, clickVars, lookupVars, modalVars, openingVars,
                  renderVars >>

\* the timer of switchTab fires: setTab(next)
TabTimerFires ==
  /\ tabTimers # << >>
  /\ tab' = Head(tabTimers)
  /\ tabTimers' = Tail(tabTimers)
  /\ UNCHANGED << normVars, scoreVars, costVars, homeVars, bestVars,
                  detailVars, clickVars, lookupVars, modalVars, openingVars,
                  renderVars >>

NextChart ==
  \/ SetMinScore
  \/ SetMinSpeedVal
  \/ ToggleOpenWeights
  \/ SwitchTab
  \/ TabTimerFires

SpecChart == InitChart /\ [][NextChart]_vars

(***************************************************************************)
(* One render of Home and of what it mounts.  React renders once after     *)
(* each event whose handler changed the state, before the next event: Home *)
(* computes filtered, sorted and searched from the imported models, Chart  *)
(* gets filtered as its prop models, and ModelDetail, mounted while a      *)
(* model is selected, orders the providers of that model three times.  The *)
(* selected model is an element of models, and its providers array is the  *)
(* one that element holds.                                                 *)
(***************************************************************************)
\* the arrays that exist before a render: the three that data/models.ts
\* exports, and the providers of the selected model
Data ==
  LET imported  == NewArray(NoArrays, "data.models", models)
      withLabs  == NewArray(imported, "data.labs", labs)
      withProvs == NewArray(withLabs, "data.providers", providers)
  IN  IF selectedModel # null
        THEN NewArray(withProvs, "model.providers", selectedModel.providers)
        ELSE withProvs

\* the predicate of models.filter, the comparator of [...filtered].sort and
\* the predicate of sorted.filter
KeepsModel(m) ==
  /\ overallScore(m) >= minScore
  /\ bestSpeed(m) >= minSpeedVal
  /\ (~requireVision \/ m.supportsImages)
  /\ (~requireOpenWeights \/ m.openWeights)

CompareShown(a, b) == CompareRows(sortCol, sortAsc, a, b)

MatchesQuery(m) ==
  \/ includes(toLowerCase(m.name), toLowerCase(searchQuery))
  \/ includes(toLowerCase(getLabName(m.labId)), toLowerCase(searchQuery))

\* searched = searchQuery ? sorted.filter(...) : sorted
HomeSearched(arrays) ==
  IF searchQuery # << >>
    THEN ArrayFilter(arrays, "Home.searched",
                     SelectSeq(Get(arrays, "Home.sorted"), MatchesQuery))
    ELSE Refer(arrays, "Home.sorted", "Home.searched")

\* Home: filtered, sorted, searched
HomeRender(arrays) ==
  HomeSearched(
    ArraySort(
      ArraySpread(
        ArrayFilter(arrays, "Home.filtered",
                    SelectSeq(Get(arrays, "data.models"), KeepsModel)),
        "Home.filtered", "Home.sorted"),
      "Home.sorted", CompareShown))

\* getProvider(p.providerId)?.name ?? ""
providerName(p) ==
  IF getProvider(p.providerId) # undefined
    THEN getProvider(p.providerId).name
    ELSE << >>

\* the comparator of sortedProviders
CompareProviders(col, asc, a, b) ==
  LET cmp ==
        CASE col = "provider" -> localeCompare(providerName(a), providerName(b))
          [] col = "input"    -> a.costPer1MInput - b.costPer1MInput
          [] col = "output"   -> a.costPer1MOutput - b.costPer1MOutput
          [] col = "blended"  -> blendedCost(a) - blendedCost(b)
          [] col = "speed"    -> a.tokensPerSecond - b.tokensPerSecond
  IN  IF asc THEN cmp ELSE 0 - cmp

\* ModelDetail: speedProviders and costProviders
DetailBars(arrays) ==
  ArraySort(
    ArraySpread(
      ArraySort(ArraySpread(arrays, "model.providers", "speedProviders"),
                "speedProviders",
                LAMBDA a, b : b.tokensPerSecond - a.tokensPerSecond),
      "model.providers", "costProviders"),
    "costProviders", LAMBDA a, b : blendedCost(a) - blendedCost(b))

\* ModelDetail: sortedProviders
DetailTable(arrays) ==
  IF provSortCol # NoSort
    THEN ArraySort(
           ArraySpread(arrays, "model.providers", "sortedProviders"),
           "sortedProviders",
           LAMBDA a, b : CompareProviders(provSortCol, provSortAsc, a, b))
    ELSE ArraySpread(arrays, "model.providers", "sortedProviders")

\* ModelDetail, mounted while a model is selected
DetailRender(arrays) ==
  IF selectedModel # null THEN DetailTable(DetailBars(arrays)) ELSE arrays

\* the arrays after one render
RenderPass ==
  DetailRender(Chart(Refer(HomeRender(Data), "Home.filtered", "models"), tab))

\* the state that a render shows
RenderState ==
  << minScore, minSpeedVal, requireVision, requireOpenWeights, sortCol,
     sortAsc, searchQuery, searchFocused, provSortCol, provSortAsc, tab,
     selectedModel, closingModal, modalPhase >>

\* the selected model with the providers array as the render left it
ModelAfter(arrays, m) ==
  IF selectedModel # null /\ m = selectedModel
    THEN [ m EXCEPT !.providers = Get(arrays, "model.providers") ]
    ELSE m

\* models as the render left it
CatalogAfter(arrays) ==
  LET rows == Get(arrays, "data.models")
  IN  SubSeq([ i \in 1..Len(rows) |-> ModelAfter(arrays, rows[i]) ],
             1, Len(rows))

\* a render leaves the imported arrays as its array operations left them
Leave(arrays) ==
  /\ models' = CatalogAfter(arrays)
  /\ selectedModel' = ModelAfter(arrays, selectedModel)

\* the render that follows a change of state
Render ==
  /\ rendered # RenderState
  /\ Leave(RenderPass)
  /\ UNCHANGED << minScore, minSpeedVal, requireVision, requireOpenWeights,
                  sortCol, sortAsc, searchQuery, searchFocused >>
  /\ UNCHANGED << closingModal, hash, listening, hashEvents, modalPhase,
                  frames, timers >>
  /\ UNCHANGED << normVars, scoreVars, costVars, bestVars, detailVars,
                  clickVars, lookupVars, openingVars, tabVars >>
  /\ rendered' = RenderState'

\* an event is handled when the render of the state before it is done; the
\* user acts when the hashchange event of the last opening has been
\* delivered; the modal, while mounted, covers the page
Rendered == rendered = RenderState
UserInReach == Rendered /\ hashEvents = 0
PageInReach == UserInReach /\ selectedModel = null

\* where the score slider is dragged to, the columns whose headers are
\* clicked, and what is typed
RenderScores == { 40, 70 }
RenderSortColumns == { "score", "cost" }
RenderProvSortColumns == { "speed" }
RenderQueries == { << >>, << "O", "p" >> }

InitRender ==
  /\ models = CatalogExcerpt
  /\ minScore = 70
  /\ minSpeedVal = 0
  /\ requireVision = FALSE
  /\ requireOpenWeights = FALSE
  /\ sortCol = "score"
  /\ sortAsc = FALSE
  /\ searchQuery = << >>
  /\ searchFocused = FALSE
  /\ IdleNorm
  /\ IdleScore
  /\ IdleCost
  /\ IdleBest
  /\ IdleDetail
  /\ IdleClicks
  /\ IdleLookup
  /\ IdlePage

RenderedMount == Rendered /\ Mount
ChangeFilter ==
  /\ PageInReach
  /\ \E v \in RenderScores : minScore' = v
  /\ UNCHANGED << models, minSpeedVal, requireVision, requireOpenWeights,
                  sortCol, sortAsc, searchQuery, searchFocused,
                  normVars, scoreVars, costVars, bestVars, detailVars,
                  clickVars, lookupVars, pageVars >>
ClickHeader ==
  /\ PageInReach
  /\ \E col \in RenderSortColumns : toggleSort(col)
  /\ UNCHANGED clickVars
FocusSearchBox == PageInReach /\ FocusSearch
TypeQuery ==
  /\ PageInReach
  /\ searchFocused
  /\ \E q \in RenderQueries : searchQuery' = q
  /\ UNCHANGED << models, minScore, minSpeedVal, requireVision,
                  requireOpenWeights, sortCol, sortAsc, searchFocused,
                  normVars, scoreVars, costVars, bestVars, detailVars,
                  clickVars, lookupVars, pageVars >>
ClickTab == PageInReach /\ SwitchTab
TabSwaps == Rendered /\ TabTimerFires
ClickRow == PageInReach /\ OpenModel
HashChanged == Rendered /\ HashChange
ClickProviderHeader ==
  /\ UserInReach
  /\ selectedModel # null
  /\ \E col \in RenderProvSortColumns : toggleProvSort(col)
  /\ UNCHANGED clickVars
CloseWithEscape == UserInReach /\ PressEscape
CloseTimerFires == Rendered /\ TimerFires

NextRender ==
  \/ Render
  \/ RenderedMount
  \/ ChangeFilter
  \/ ClickHeader
  \/ FocusSearchBox
  \/ TypeQuery
  \/ ClickTab
  \/ TabSwaps
  \/ ClickRow
  \/ HashChanged
  \/ ClickProviderHeader
  \/ CloseWithEscape
  \/ CloseTimerFires

SpecRender == InitRender /\ [][NextRender]_vars

(***************************************************************************)
(* Properties of the scoring helpers                                       *)
(***************************************************************************)
Abs(x) == IF x >= 0 THEN x ELSE 0 - x

\* the components the composite is stated to include
IncludedKeys(s) ==
  {"reasoning"}
    \cup { k \in {"general", "math", "reasoningHle"} : k \in DOMAIN s }
    \cup ( IF "coding" \in DOMAIN s THEN {"coding"}
           ELSE IF "codingLive" \in DOMAIN s THEN {"codingLive"} ELSE {} )

RECURSIVE SumNormalized(_, _)
SumNormalized(keys, s) ==
  IF keys = {} THEN 0
  ELSE LET k == CHOOSE x \in keys : TRUE
       IN  normalize(s[k], k) + SumNormalized(keys \ {k}, s)

\* r is an integer nearest to 100 * (mean of the included components):
\* | 100 * sum / n - r | <= 1/2, with sum counted in 1/NormScale
IsRoundedMean(s, r) ==
  LET keys == IncludedKeys(s)
      n    == Cardinality(keys)
      sum  == SumNormalized(keys, s)
  IN  /\ r \in Int
      /\ 2 * Abs(100 * sum - r * n * NormScale) <= n * NormScale

\* C1: overallScore(model) is the unweighted mean of the included normalized
\* components times 100, rounded to the nearest integer; the included
\* components are reasoning, each of general, math and reasoningHle that is
\* present, and coding if present, else codingLive if present.
C1_OverallScoreIsRoundedMean ==
  /\ phase \in {"scored", "compared"} => IsRoundedMean(modelA.scores, outA)
  /\ phase = "compared" => IsRoundedMean(modelB.scores, outB)

\* a model with both coding scores, above the ceiling of coding, and no math
C1_Witness ==
  /\ phase = "scored"
  /\ Has(modelA.scores, "coding")
  /\ Has(modelA.scores, "codingLive")
  /\ modelA.scores.coding # modelA.scores.codingLive
  /\ ~Has(modelA.scores, "math")
  /\ outA > 0

\* the goalpost table as the specification states it
StatedFloor(key) ==
  CASE key = "reasoning" -> 25 [] key = "general" -> 10 [] OTHER -> 0
StatedCeiling(key) ==
  CASE key \in {"coding", "codingLive"} -> 80 [] OTHER -> 100

\* C2: for every key of the goalpost table and every raw input, normalize(raw,
\* key) is clamp((raw - floor) / (ceiling - floor), 0, 1) with the floor and
\* ceiling the table states for the key.
C2_NormalizeIsClampedRatio ==
  nDone =>
    LET f == StatedFloor(nKey)
        c == StatedCeiling(nKey)
    IN  /\ nRaw <= f => nOut = 0
        /\ nRaw >= c => nOut = NormScale
        /\ (f < nRaw /\ nRaw < c) => nOut * (c - f) = (nRaw - f) * NormScale

\* reasoning 80 normalizes to 55/75
C2_Witness ==
  /\ nDone
  /\ nKey = "reasoning"
  /\ nRaw = 80
  /\ nOut * 75 = 55 * NormScale

\* C3: for every key and every raw input, below the floor and above the
\* ceiling included, normalize(raw, key) lies in [0, 1].
C3_NormalizeInUnitInterval ==
  nDone => (0 <= nOut /\ nOut <= NormScale)

\* a raw score above the ceiling of its benchmark has been normalized
C3_Witness ==
  /\ nDone
  /\ nRaw > GOALPOSTS[nKey].ceiling
  /\ nOut = NormScale

\* C4: for a model with reasoning present and any combination of present and
\* absent optional fields, overallScore is defined (not NaN) and an integer in
\* 0..100, and the list of components is not empty.
C4_OverallScoreDefined ==
  /\ phase \in {"scored", "compared"} =>
       /\ outA # NaN
       /\ outA \in 0..100
       /\ Len(Parts(modelA.scores)) >= 1
  /\ phase = "compared" =>
       /\ outB # NaN
       /\ outB \in 0..100
       /\ Len(Parts(modelB.scores)) >= 1

\* a model whose only score is reasoning has been scored
C4_Witness ==
  /\ phase = "scored"
  /\ DOMAIN modelA.scores = {"reasoning"}
  /\ outA \in 0..100

\* the two models differ in the fields of keys only, and do differ
DifferOnlyIn(s, t, keys) ==
  /\ s # t
  /\ \A k \in ScoreKeys \ keys :
       /\ (k \in DOMAIN s) = (k \in DOMAIN t)
       /\ k \in DOMAIN s => s[k] = t[k]

\* C5: if coding and codingLive are both present, two models that differ only
\* in the value of codingLive have the same overallScore.
C5_CodingLiveIgnoredWhenCoding ==
  ( /\ phase = "compared"
    /\ Has(modelA.scores, "coding")
    /\ Has(modelA.scores, "codingLive")
    /\ Has(modelB.scores, "codingLive")
    /\ DifferOnlyIn(modelA.scores, modelB.scores, {"codingLive"}) )
  => outB = outA

\* coding is present and codingLive went from below its ceiling to above it
C5_Witness ==
  /\ phase = "compared"
  /\ Has(modelA.scores, "coding")
  /\ Has(modelA.scores, "codingLive")
  /\ Has(modelB.scores, "codingLive")
  /\ DifferOnlyIn(modelA.scores, modelB.scores, {"codingLive"})
  /\ modelA.scores.codingLive = 40
  /\ modelB.scores.codingLive = 85
  /\ outB = outA

\* the variant has the present score key raised and is the same otherwise
RaisedOnly(s, t, key) ==
  /\ key \in DOMAIN s
  /\ key \in DOMAIN t
  /\ t[key] > s[key]
  /\ DifferOnlyIn(s, t, {key})

\* C6: raising one present raw score of a model, everything else and the
\* presence of every score fixed, never lowers overallScore.
C6_ScoreMonotone ==
  \A key \in ScoreKeys :
    ( /\ phase = "compared"
      /\ RaisedOnly(modelA.scores, modelB.scores, key) ) => outB >= outA

\* a raised math score has raised the composite
C6_Witness ==
  /\ phase = "compared"
  /\ RaisedOnly(modelA.scores, modelB.scores, "math")
  /\ outB > outA

\* C7: two models that differ only in the presence or value of multimodal
\* and elo have the same overallScore.
C7_MultimodalAndEloExcluded ==
  ( /\ phase = "compared"
    /\ DifferOnlyIn(modelA.scores, modelB.scores, ExcludedKeys) )
  => outB = outA

\* the variant has gained a multimodal score
C7_Witness ==
  /\ phase = "compared"
  /\ ~Has(modelA.scores, "multimodal")
  /\ Has(modelB.scores, "multimodal")
  /\ DifferOnlyIn(modelA.scores, modelB.scores, ExcludedKeys)
  /\ outB = outA

\* round(((80 - 25) / 75 + 90 / 100) / 2 * 100): the integer r with
\* | ((80 - 25) * 100 + 90 * 75) * 100 / (75 * 100 * 2) - r | < 1/2
ScenarioStatedA ==
  CHOOSE r \in 0..100 :
    2 * Abs(((80 - 25) * 100 + 90 * 75) * 100 - r * 75 * 100 * 2) < 75 * 100 * 2

\* round(((80 - 25) / 75 + (90 - 10) / 90) / 2 * 100): the integer r with
\* | ((80 - 25) * 90 + (90 - 10) * 75) * 100 / (75 * 90 * 2) - r | < 1/2
ScenarioGoalpostA ==
  CHOOSE r \in 0..100 :
    2 * Abs(((80 - 25) * 90 + (90 - 10) * 75) * 100 - r * 75 * 90 * 2) < 75 * 90 * 2

\* C8 as stated: for model A of the end-to-end scenario, scores {reasoning:
\* 80, general: 90}, overallScore(A) = round(((80-25)/75 + 90/100)/2*100).
C8_ScenarioScoreAsStated ==
  ( /\ phase \in {"scored", "compared"}
    /\ modelA.scores = ScenarioScoresA ) => outA = ScenarioStatedA

\* C8, amended: general is normalized with its goalposts, floor 10 and ceiling
\* 100, so overallScore(A) = round(((80-25)/75 + (90-10)/90)/2*100) = 81.
C8_ScenarioScoreWithGeneralFloor ==
  ( /\ phase \in {"scored", "compared"}
    /\ modelA.scores = ScenarioScoresA )
  => (outA = ScenarioGoalpostA /\ outA = 81)

\* model A of the scenario has been scored
C8_Witness ==
  /\ phase = "scored"
  /\ modelA.scores = ScenarioScoresA
  /\ outA = 81

\* C10: blendedCost(provider) = (costPer1MInput * 3 + costPer1MOutput) / 4;
\* input 4 and output 8 (dollars) give exactly 5; the result is not negative
\* when neither price is.
C10_BlendedCostFormula ==
  costDone =>
    /\ costOut * 4 = (prov.costPer1MInput * 3 + prov.costPer1MOutput) * CostScale
    /\ (prov.costPer1MInput = 400 /\ prov.costPer1MOutput = 800)
         => costOut = 500 * CostScale
    /\ (prov.costPer1MInput >= 0 /\ prov.costPer1MOutput >= 0) => costOut >= 0

\* input 4.00 and output 8.00 have been blended to 5.00
C10_Witness ==
  /\ costDone
  /\ prov.costPer1MInput = 400
  /\ prov.costPer1MOutput = 800
  /\ costOut = 500 * CostScale

(***************************************************************************)
(* Properties of bestCost, bestSpeed, costRange and speedRange             *)
(***************************************************************************)
\* the blended costs and the speeds of a model's providers, in list order
CostsOf(model) ==
  [ i \in 1..Len(model.providers) |-> blendedCost(model.providers[i]) ]
SpeedsOf(model) ==
  [ i \in 1..Len(model.providers) |-> model.providers[i].tokensPerSecond ]

\* x is an element of the list q and no element of q is smaller (larger)
IsLeast(x, q) ==
  (\E i \in 1..Len(q) : q[i] = x) /\ (\A i \in 1..Len(q) : x <= q[i])
IsGreatest(x, q) ==
  (\E i \in 1..Len(q) : q[i] = x) /\ (\A i \in 1..Len(q) : x >= q[i])

BestApplied == bPhase \in { "applied", "reordered" }

\* C11: for a model with a non-empty list of providers, bestCost is the least
\* blended cost of its providers and bestSpeed the greatest tokensPerSecond:
\* costs [5, 2, 8] give 2 and speeds [10, 40] give 40; the same providers in
\* any other order give the same two results.
C11_BestIsMinCostMaxSpeed ==
  /\ BestApplied =>
       /\ IsLeast(bOut.bestCost, CostsOf(bModel))
       /\ IsGreatest(bOut.bestSpeed, SpeedsOf(bModel))
       /\ CostsOf(bModel) = << 500 * CostScale, 200 * CostScale, 800 * CostScale >>
            => bOut.bestCost = 200 * CostScale
       /\ SpeedsOf(bModel) = << 10, 40 >> => bOut.bestSpeed = 40
  /\ bPhase = "reordered" =>
       /\ bOrderOut.bestCost = bOut.bestCost
       /\ bOrderOut.bestSpeed = bOut.bestSpeed

\* the costs [5, 2, 8] of the claim, then the same providers in another order
C11_Witness ==
  /\ bPhase = "reordered"
  /\ CostsOf(bModel) = << 500 * CostScale, 200 * CostScale, 800 * CostScale >>
  /\ SpeedsOf(bModel) = << 40, 10, 10 >>
  /\ CostsOf(bOrder) = << 800 * CostScale, 500 * CostScale, 200 * CostScale >>
  /\ bOut.bestCost = 200 * CostScale
  /\ bOut.bestSpeed = 40

\* C12: costRange is [least, greatest] blended cost and speedRange [least,
\* greatest] tokensPerSecond of the providers; in each the first endpoint is
\* at most the second; costRange[0] is bestCost and speedRange[1] is
\* bestSpeed; with a single provider the two endpoints are equal.
C12_RangesAreMinMax ==
  BestApplied =>
    /\ IsLeast(bOut.costRange[1], CostsOf(bModel))
    /\ IsGreatest(bOut.costRange[2], CostsOf(bModel))
    /\ IsLeast(bOut.speedRange[1], SpeedsOf(bModel))
    /\ IsGreatest(bOut.speedRange[2], SpeedsOf(bModel))
    /\ bOut.costRange[1] <= bOut.costRange[2]
    /\ bOut.speedRange[1] <= bOut.speedRange[2]
    /\ bOut.costRange[1] = bOut.bestCost
    /\ bOut.speedRange[2] = bOut.bestSpeed
    /\ Len(bModel.providers) = 1 =>
         /\ bOut.costRange[1] = bOut.costRange[2]
         /\ bOut.speedRange[1] = bOut.speedRange[2]

\* three providers whose first is neither the cheapest nor the slowest
C12_Witness ==
  /\ bPhase = "applied"
  /\ CostsOf(bModel) = << 500 * CostScale, 800 * CostScale, 200 * CostScale >>
  /\ SpeedsOf(bModel) = << 40, 10, 40 >>
  /\ bOut.costRange = << 200 * CostScale, 800 * CostScale >>
  /\ bOut.speedRange = << 10, 40 >>

(***************************************************************************)
(* Properties of the dashboard                                             *)
(***************************************************************************)
Ids(rows) == [ i \in 1..Len(rows) |-> rows[i].id ]
IdSet(rows) == { rows[i].id : i \in 1..Len(rows) }

\* the scenario's catalog with every filter other than minScore at its default
ScenarioFiltering ==
  /\ models = ScenarioCatalog
  /\ minSpeedVal = 0
  /\ ~requireVision
  /\ ~requireOpenWeights

\* C9 as stated: in the end-to-end scenario, filtering with minScore = 70
\* keeps exactly {A, C}, and sorting the kept set by cost ascending yields
\* [C, A].
C9_ScenarioKeepsAAndC ==
  (ScenarioFiltering /\ minScore = 70) =>
    /\ IdSet(filtered) = {"a", "c"}
    /\ Len(filtered) = 2
    /\ (sortCol = "cost" /\ sortAsc) => Ids(sorted) = << "c", "a" >>

\* C9, amended: the scores are A 81, B 47, C 68, so minScore = 70 keeps
\* exactly {A} and sorting by cost ascending yields [A]; a minScore in 48..68
\* keeps exactly {A, C}, and sorting those by cost ascending yields [C, A].
C9_ScenarioKeepsAOnly ==
  ScenarioFiltering =>
    /\ minScore = 70 =>
         /\ Ids(filtered) = << "a" >>
         /\ (sortCol = "cost" /\ sortAsc) => Ids(sorted) = << "a" >>
    /\ minScore \in 48..68 =>
         /\ Ids(filtered) = << "a", "c" >>
         /\ (sortCol = "cost" /\ sortAsc) => Ids(sorted) = << "c", "a" >>

\* the scenario filtered at minScore = 70 and sorted by cost ascending
C9_Witness ==
  /\ ScenarioFiltering
  /\ minScore = 70
  /\ sortCol = "cost"
  /\ sortAsc
  /\ Ids(sorted) = << "a" >>

\* the four conditions of the filter, on the criteria of the current state
Passes(m) ==
  /\ overallScore(m) >= minScore
  /\ bestSpeed(m) >= minSpeedVal
  /\ (requireVision => m.supportsImages)
  /\ (requireOpenWeights => m.openWeights)

\* C13: the filtered set is exactly the subset of the catalog whose models
\* have overallScore >= minScore, bestSpeed >= minSpeed, supportsImages when
\* vision-only is on and openWeights when open-only is on: nothing else is
\* kept, nothing that passes is dropped, and no model is kept twice.
C13_FilteredIsPassingSubset ==
  LET rows == filtered
  IN  /\ \A i \in 1..Len(models) :
           Passes(models[i]) <=> (\E j \in 1..Len(rows) : rows[j] = models[i])
      /\ Len(rows) = Cardinality({ i \in 1..Len(models) : Passes(models[i]) })

\* Gemini 2.5 Pro scores exactly the minimum 70 and is kept; Claude Opus 4.5
\* is dropped for its speed, GPT-OSS 120B for its score and for having no
\* vision, GPT-4o and DeepSeek V3 for their scores
C13_Witness ==
  /\ models = CatalogExcerpt
  /\ minScore = 70
  /\ minSpeedVal = 120
  /\ requireVision
  /\ ~requireOpenWeights
  /\ overallScore(models[4]) = minScore
  /\ bestSpeed(models[3]) < minSpeedVal
  /\ Ids(filtered) = << "gemini-2.5-pro" >>

\* the filter criteria of the initial state, which Reset restores
DefaultCriteria ==
  /\ minScore = 70
  /\ minSpeedVal = 0
  /\ ~requireVision
  /\ ~requireOpenWeights

\* C14 as stated: with the initial filter criteria, and after Reset, the
\* query yields the full catalog.
C14_DefaultYieldsFullCatalog ==
  DefaultCriteria => filtered = models

DefaultKeepsScoreAtLeast70 ==
  /\ DefaultCriteria =>
       LET rows == filtered
       IN  \A i \in 1..Len(models) :
             (\E j \in 1..Len(rows) : rows[j] = models[i])
               <=> overallScore(models[i]) >= 70
  /\ (minScore = 0 /\ minSpeedVal = 0 /\ ~requireVision /\ ~requireOpenWeights)
       => filtered = models

\* C14, amended: the initial criteria are minScore 70, minSpeed 0 and both
\* pills off, and Reset restores exactly these; with them the query yields
\* exactly the catalog models whose overallScore is at least 70; the full
\* catalog is what minScore 0 yields with the other criteria at their
\* defaults.
C14_DefaultYieldsScoreAtLeast70 ==
  /\ []DefaultKeepsScoreAtLeast70
  /\ [][Reset => DefaultCriteria']_vars

\* the catalog excerpt under the restored criteria: three of five are dropped
C14_Witness ==
  /\ models = CatalogExcerpt
  /\ DefaultCriteria
  /\ Ids(filtered) = << "claude-opus-4-5", "gemini-2.5-pro" >>

\* m is one of rows
IsRow(rows, m) == \E j \in 1..Len(rows) : rows[j] = m

\* the top of a slider's cost-like range, in dollars
MaxCostTop == 50

\* the positions of a slider over the cost-like range, in 1/CostScale cents
MaxCostStops == { 100 * CostScale * c : c \in SliderStops(0, MaxCostTop) }

ProviderIds ==
  UNION { { models[i].providers[k].providerId : k \in 1..Len(models[i].providers) } :
          i \in 1..Len(models) }

OfferedBy(m, providerId) ==
  \E k \in 1..Len(m.providers) : m.providers[k].providerId = providerId

SameIgnoringCase(c, d) ==
  \/ c = d
  \/ \E k \in 1..Len(UpperChars) :
       {c, d} = { UpperChars[k], LowerChars[k] }

\* q occurs in str at some offset, letter case ignored
OccursIgnoringCase(q, str) ==
  \E offset \in 0..(Len(str) - Len(q)) :
    \A i \in 1..Len(q) : SameIgnoringCase(q[i], str[offset + i])

KnownLab(id) == \E i \in 1..Len(labs) : labs[i].id = id

LabNameOf(id) == labs[CHOOSE i \in 1..Len(labs) : labs[i].id = id].name

\* C17: the search keeps a row iff the lower-cased query is a substring of the
\* model's lower-cased name or of its lab's lower-cased name (for a lab id
\* that no lab has, of the name only); the empty query keeps every row; the
\* kept rows stay in their order.
C17_SearchMatchesNameOrLab ==
  LET rows  == sorted
      found == searched
      Hit(m) ==
        \/ OccursIgnoringCase(searchQuery, m.name)
        \/ KnownLab(m.labId) /\ OccursIgnoringCase(searchQuery, LabNameOf(m.labId))
  IN  /\ searchQuery = << >> => found = rows
      /\ searchQuery # << >> => found = SelectSeq(rows, Hit)

\* "Op" finds Claude Opus 4.5 by its name and the two models of OpenAI by
\* their lab, and drops Gemini 2.5 Pro and DeepSeek V3
C17_Witness ==
  /\ models = CatalogExcerpt
  /\ searchQuery = << "O", "p" >>
  /\ minScore = 0
  /\ minSpeedVal = 0
  /\ ~requireVision
  /\ ~requireOpenWeights
  /\ sortCol = "score"
  /\ ~sortAsc
  /\ Ids(sorted) = << "claude-opus-4-5", "gemini-2.5-pro", "gpt-oss-120b",
                      "deepseek-v3", "gpt-4o" >>
  /\ Ids(searched) = << "claude-opus-4-5", "gpt-oss-120b", "gpt-4o" >>

\* the day an ISO date string YYYY-MM-DD names, as the number YYYYMMDD
DigitValue(c) == IndexOf(OtherChars, c) - 5
DateNumber(str) ==
  LET d(i) == DigitValue(str[i])
  IN  (((d(1) * 10 + d(2)) * 10 + d(3)) * 10 + d(4)) * 10000
        + (d(6) * 10 + d(7)) * 100 + d(9) * 10 + d(10)

\* the sort key of row a is at most that of row b
KeyAtMost(col, a, b) ==
  CASE col = "model"    -> localeCompare(a.name, b.name) <= 0
    [] col = "creator"  ->
         localeCompare(getLabName(a.labId), getLabName(b.labId)) <= 0
    [] col = "score"    -> overallScore(a) <= overallScore(b)
    [] col = "cost"     -> bestCost(a) <= bestCost(b)
    [] col = "speed"    -> bestSpeed(a) <= bestSpeed(b)
    [] col = "released" -> DateNumber(a.releaseDate) <= DateNumber(b.releaseDate)

\* rows holds exactly the rows of others, each once
SameRows(rows, others) ==
  /\ Len(rows) = Len(others)
  /\ \A j \in 1..Len(others) : IsRow(rows, others[j])
  /\ \A i, j \in 1..Len(rows) : rows[i] = rows[j] => i = j

\* three models with blended costs 30, 4.38 and 2.19, in this order
CostExampleRows ==
  << [ id |-> "x", providers |-> << Offer("openai", 3000, 3000, 10) >> ],
     [ id |-> "y", providers |-> << Offer("openai", 438, 438, 10) >> ],
     [ id |-> "z", providers |-> << Offer("openai", 219, 219, 10) >> ] >>

\* C18: with an active sort column and direction the list holds the filtered
\* rows ordered by that column's key (name, lab name, overallScore, bestCost,
\* bestSpeed or releaseDate): consecutive rows are non-decreasing when
\* ascending and non-increasing when descending; cost ascending on costs
\* [30, 4.38, 2.19] yields [2.19, 4.38, 30].
C18_SortedByActiveColumn ==
  /\ sortCol \in SortColumns =>
       LET rows == sorted
       IN  /\ SameRows(rows, filtered)
           /\ \A i \in 1..(Len(rows) - 1) :
                IF sortAsc THEN KeyAtMost(sortCol, rows[i], rows[i + 1])
                           ELSE KeyAtMost(sortCol, rows[i + 1], rows[i])
  /\ (sortCol = "cost" /\ sortAsc) =>
       Ids(SortRows(sortCol, sortAsc, CostExampleRows)) = << "z", "y", "x" >>

\* the scenario's costs [30, 2, 10] sorted by cost ascending
C18_Witness ==
  /\ models = ScenarioCatalog
  /\ minScore = 0
  /\ sortCol = "cost"
  /\ sortAsc
  /\ Ids(filtered) = << "a", "b", "c" >>
  /\ Ids(sorted) = << "b", "c", "a" >>
  /\ bestCost(sorted[1]) < bestCost(sorted[2])
  /\ bestCost(sorted[2]) < bestCost(sorted[3])

(***************************************************************************)
(* Properties of the sort controls                                         *)
(***************************************************************************)
\* where a run of clicks on one column header leaves a table's sort
CycleState(run, col, asc) ==
  /\ run.n = 1 => (col = run.col /\ ~asc)
  /\ run.n = 2 => (col = run.col /\ asc)
  /\ run.n = 3 => col = NoSort

\* C19: selecting a sort column repeatedly follows a three-state cycle, in
\* the models table and in the provider table: the first click on a column
\* that is not the active one makes it active, descending; the second click
\* switches to ascending; the third clears the sort (sortCol = null); after
\* any sequence of clicks a click on a column other than the active one
\* leaves that column active, descending.
C19_SortCycle ==
  /\ homeClicks.n \in 1..3
  /\ provClicks.n \in 1..3
  /\ CycleState(homeClicks, sortCol, sortAsc)
  /\ CycleState(provClicks, provSortCol, provSortAsc)

\* three clicks on Cost have cleared the sort of the models table, and two
\* clicks on Speed have left the provider table sorted by speed, ascending
C19_Witness ==
  /\ homeClicks = [col |-> "cost", n |-> 3]
  /\ sortCol = NoSort
  /\ provClicks = [col |-> "speed", n |-> 2]
  /\ provSortCol = "speed"
  /\ provSortAsc

\* C20: with no explicit sort (sortCol null) the list holds the filtered rows
\* ordered by overallScore descending, and is the list that the initial sort
\* state (score column, descending) gives for the same filters: a column
\* cycled through its three states leaves the list in the initial order.
C20_NoSortIsScoreDescending ==
  sortCol = NoSort =>
    LET rows == sorted
    IN  /\ SameRows(rows, filtered)
        /\ \A i \in 1..(Len(rows) - 1) :
             overallScore(rows[i]) >= overallScore(rows[i + 1])
        /\ rows = SortRows("score", FALSE, filtered)

\* the excerpt, unfiltered, after the third click on a column
C20_Witness ==
  /\ models = CatalogExcerpt
  /\ minScore = 0
  /\ minSpeedVal = 0
  /\ ~requireVision
  /\ ~requireOpenWeights
  /\ sortCol = NoSort
  /\ sortAsc
  /\ Ids(sorted) = << "claude-opus-4-5", "gemini-2.5-pro", "gpt-oss-120b",
                      "deepseek-v3", "gpt-4o" >>

(***************************************************************************)
(* Properties of getLab and getProvider                                    *)
(***************************************************************************)
TableOf(name) == IF name = "labs" THEN labs ELSE providers

\* C21: getLab(id) and getProvider(id) return the entry of their table whose
\* id equals the argument when there is one, and the absent value undefined
\* when there is none, for every id; the callers take the absent value: the
\* lab name of the creator sort and of the search is then the empty string,
\* and the label of a provider is then the raw providerId.
C21_LookupFindsEntryOrUndefined ==
  LET table == TableOf(lkTable)
      known == \E i \in 1..Len(table) : table[i].id = lkId
  IN  /\ lkPhase \in { "found", "used" } =>
           IF known
             THEN /\ lkOut # undefined
                  /\ lkOut.id = lkId
                  /\ \E i \in 1..Len(table) : table[i] = lkOut
             ELSE lkOut = undefined
      /\ lkPhase = "used" =>
           IF known THEN lkText = lkOut.name
           ELSE IF lkTable = "labs" THEN lkText = << >>
           ELSE lkText = lkId

\* the provider id of the scenario is in no table: the label is the raw id
C21_Witness ==
  /\ lkPhase = "used"
  /\ lkTable = "providers"
  /\ lkId = "scenario"
  /\ lkOut = undefined
  /\ lkText = "scenario"

(***************************************************************************)
(* Properties of the dashboard, continued                                  *)
(***************************************************************************)
\* C22: whenever the filter criteria match no model of the catalog, the
\* empty-result signal is raised: the empty flag of both sliders is true and
\* both show "No Possible Models"; and the signal is raised only then: with a
\* matching model the flag is false and the sliders show their own labels,
\* whatever the search finds.
C22_EmptySignalIffNothingFiltered ==
  LET nothing == \A i \in 1..Len(models) : ~Passes(models[i])
  IN  /\ empty <=> nothing
      /\ nothing => /\ scoreSliderLabel = "No Possible Models"
                    /\ speedSliderLabel = "No Possible Models"
      /\ ~nothing => /\ scoreSliderLabel = "Minimum Intelligence"
                     /\ speedSliderLabel = "Minimum Best Speed"

\* no model of the excerpt scores 80
C22_Witness ==
  /\ models = CatalogExcerpt
  /\ minScore = 80
  /\ minSpeedVal = 0
  /\ \A i \in 1..Len(models) : overallScore(models[i]) < 80
  /\ empty
  /\ scoreSliderLabel = "No Possible Models"

\* the row m meets the search: the query, letter case ignored, occurs in its
\* name or in the name of its lab
Found(m) ==
  \/ OccursIgnoringCase(searchQuery, m.name)
  \/ KnownLab(m.labId) /\ OccursIgnoringCase(searchQuery, LabNameOf(m.labId))

\* part holds rows of whole, in the order they have in whole (no row stands
\* twice in whole)
IsSubsequence(part, whole) ==
  LET InPart(m) == IsRow(part, m)
  IN  part = SelectSeq(whole, InPart)

\* C24: the pipeline is filter, then sort, then search: the sorted list is a
\* permutation of the filtered list (same members, none twice, none lost), the
\* searched list is a subsequence of the sorted list in the same order, and
\* the displayed rows are exactly the catalog models that meet the filter and
\* the search.
C24_PipelineFilterSortSearch ==
  LET kept  == filtered
      rows  == sorted
      shown == searched
  IN  /\ SameRows(rows, kept)
      /\ IsSubsequence(shown, rows)
      /\ \A i \in 1..Len(models) :
           IsRow(shown, models[i]) <=> (Passes(models[i]) /\ Found(models[i]))
      /\ \A j \in 1..Len(shown) : IsRow(models, shown[j])

\* minScore 40 drops two of the five models, the cost column reorders the
\* three that are left, and "Op" drops one of them
C24_Witness ==
  /\ models = CatalogExcerpt
  /\ minScore = 40
  /\ sortCol = "cost"
  /\ sortAsc
  /\ searchQuery = << "O", "p" >>
  /\ Ids(filtered) = << "gpt-oss-120b", "claude-opus-4-5", "gemini-2.5-pro" >>
  /\ Ids(sorted) = << "gpt-oss-120b", "gemini-2.5-pro", "claude-opus-4-5" >>
  /\ Ids(searched) = << "gpt-oss-120b", "claude-opus-4-5" >>

\* the key of the row m in the column col
SortKey(col, m) ==
  CASE col = "model"    -> m.name
    [] col = "creator"  -> getLabName(m.labId)
    [] col = "score"    -> overallScore(m)
    [] col = "cost"     -> bestCost(m)
    [] col = "speed"    -> bestSpeed(m)
    [] col = "released" -> m.releaseDate

\* the rows a and b have the same key in the column col
TiedKey(col, a, b) == SortKey(col, a) = SortKey(col, b)

\* rows with the same key in col stand in rows as they stand in source
TiesKeepOrder(rows, source, col) ==
  LET n   == Len(rows)
      key == [ i \in 1..n |-> SortKey(col, rows[i]) ]
      at  == [ i \in 1..n |->
                 CHOOSE k \in 1..Len(source) : source[k].id = rows[i].id ]
  IN  \A i \in 1..n : \A j \in (i + 1)..n : key[i] = key[j] => at[i] < at[j]

\* two models with the same name, lab, scores, offers and release date, and
\* between them a model that is greater in every column
TieRows ==
  << [ id |-> "twin-1", name |-> << "T", "w", "i", "n" >>, labId |-> "meta",
       supportsImages |-> FALSE, openWeights |-> TRUE,
       releaseDate |-> IsoDate(2025, 1, 1), scores |-> [ reasoning |-> 70, general |-> 55 ],
       providers |-> << Offer("groq", 100, 100, 50) >> ],
     [ id |-> "other", name |-> << "Z", "e", "d" >>, labId |-> "xai",
       supportsImages |-> FALSE, openWeights |-> TRUE,
       releaseDate |-> IsoDate(2025, 6, 1), scores |-> [ reasoning |-> 95, general |-> 91 ],
       providers |-> << Offer("groq", 900, 900, 70) >> ],
     [ id |-> "twin-2", name |-> << "T", "w", "i", "n" >>, labId |-> "meta",
       supportsImages |-> FALSE, openWeights |-> TRUE,
       releaseDate |-> IsoDate(2025, 1, 1), scores |-> [ reasoning |-> 70, general |-> 55 ],
       providers |-> << Offer("groq", 100, 100, 50) >> ] >>

\* C25: models with the same key in the active sort column keep their catalog
\* order in the list, ascending and descending alike, and models with the same
\* overallScore keep it in the default order: reversing the direction does
\* not reverse tied models.
C25_TiesKeepCatalogOrder ==
  LET key   == IF sortCol = NoSort THEN "score" ELSE sortCol
      rows  == sorted
      twins == SortRows(sortCol, sortAsc, TieRows)
  IN  /\ TiesKeepOrder(rows, models, key)
      /\ TiesKeepOrder(twins, TieRows, key)

\* by creator, descending, the two OpenAI models come first, GPT-4o ahead of
\* GPT-OSS 120B as in the catalog; ascending they come last in the same order
C25_Witness ==
  /\ models = CatalogExcerpt
  /\ minScore = 0
  /\ minSpeedVal = 0
  /\ ~requireVision
  /\ ~requireOpenWeights
  /\ sortCol = "creator"
  /\ ~sortAsc
  /\ TiedKey("creator", models[1], models[2])
  /\ Ids(sorted) = << "gpt-4o", "gpt-oss-120b", "gemini-2.5-pro",
                      "deepseek-v3", "claude-opus-4-5" >>
  /\ Ids(SortRows("creator", TRUE, filtered)) =
       << "claude-opus-4-5", "deepseek-v3", "gemini-2.5-pro",
          "gpt-4o", "gpt-oss-120b" >>
  /\ Ids(SortRows(sortCol, sortAsc, TieRows)) = << "other", "twin-1", "twin-2" >>

(***************************************************************************)
(* Properties of the detail modal                                          *)
(***************************************************************************)
\* C26: a model selected by openModel or by a hash change stays selected
\* until a close is requested for it: a step that clears the selection is
\* never taken while no close has been requested since that model got
\* selected, so the onClose that an earlier close request scheduled does not
\* clear a model selected after that request.
C26_SelectedUntilCloseRequested ==
  [][(selectedModel # null /\ selectedModel' = null) => requested]_vars

\* C27: the phase of the modal only moves forward, enter to open to closing
\* or enter to closing: once handleClose has set it to closing no frame of
\* the enter transition sets it back to open while the modal is mounted.
C27_PhaseOnlyForward ==
  [][\/ modalPhase' = modalPhase
     \/ modalPhase' = "unmounted"
     \/ modalPhase = "unmounted" /\ modalPhase' = "enter"
     \/ modalPhase = "enter" /\ modalPhase' \in { "open", "closing" }
     \/ modalPhase = "open" /\ modalPhase' = "closing"]_vars

\* C28: for each opening, whatever the close requests, onCloseStart is called
\* once and onClose once, onCloseStart first: neither is called twice, onClose
\* is not called ahead of onCloseStart, and a close that was requested has
\* started; and when onClose has run no model is selected, closingModal is
\* false and the hash is empty.
C28_CloseOncePerOpening ==
  /\ [](/\ starts <= 1
        /\ closes <= 1
        /\ closes <= starts
        /\ requested => starts = 1)
  /\ [][closes' = closes + 1 =>
          (selectedModel' = null /\ ~closingModal' /\ hash' = "")]_vars

\* the model that the hash names, if one does
Named(h) == { i \in 1..Len(models) : models[i].id = h }

\* C29: when the page loads and at every hashchange, a hash that is the id of
\* a catalog model makes that model the selected one with closingModal
\* false, and an empty hash or one that is no model's id leaves selectedModel
\* and closingModal as they are; openModel(m) leaves m.id as the hash, so
\* reading the hash again selects the model that was opened.
C29_HashSelectsNamedModel ==
  [][/\ (Mount \/ HashChange) =>
          IF Named(hash) # { }
            THEN /\ \E i \in Named(hash) : selectedModel' = models[i]
                 /\ ~closingModal'
            ELSE UNCHANGED << selectedModel, closingModal >>
     /\ OpenModel =>
          /\ Named(hash') # { }
          /\ \A i \in Named(hash') : selectedModel' = models[i]]_vars

\* Claude Opus 4.5 was opened from its row and the hashchange event that the
\* new hash raised has been delivered: it is still the selected model
C29_Witness ==
  /\ models = CatalogExcerpt
  /\ listening
  /\ hash = "claude-opus-4-5"
  /\ hashEvents = 0
  /\ selectedModel # null
  /\ selectedModel.id = hash
  /\ ~closingModal
  /\ modalPhase = "open"

(***************************************************************************)
(* Properties of the ranking chart                                         *)
(***************************************************************************)
\* the row a ranks strictly ahead of the row b on the tab t
Better(t, a, b) ==
  CASE t = "intelligence" -> overallScore(a) > overallScore(b)
    [] t = "speed"        -> bestSpeed(a) > bestSpeed(b)
    [] t = "cost"         -> bestCost(a) < bestCost(b)

\* C30: of the n filtered models the chart shows min(8, n) for the selected
\* tab, each once: on the intelligence and speed tabs by overallScore and
\* bestSpeed, highest first, on the cost tab by bestCost, lowest first; no
\* model that is left out ranks strictly ahead of one that is shown.
C30_ChartShowsTopEight ==
  LET rows == filtered
      bars == topN(rows, tab)
      n    == Len(rows)
  IN  /\ Len(bars) = IF n < 8 THEN n ELSE 8
      /\ Len(bars) = barCount(rows)
      /\ \A i \in 1..Len(bars) : IsRow(rows, bars[i])
      /\ \A i, j \in 1..Len(bars) : bars[i] = bars[j] => i = j
      /\ \A i \in 1..(Len(bars) - 1) : ~Better(tab, bars[i + 1], bars[i])
      /\ \A k \in 1..n :
           ~IsRow(bars, rows[k]) =>
             \A i \in 1..Len(bars) : ~Better(tab, rows[k], bars[i])

\* the cost tab with all ten models filtered in: eight bars, Kimi K2.5
\* the cheapest first, and the two models at 10.00 left out
C30_Witness ==
  /\ models = RankingCatalog
  /\ Len(filtered) = 10
  /\ tab = "cost"
  /\ Len(topN(filtered, tab)) = 8
  /\ topN(filtered, tab)[1].id = "kimi-k2.5"
  /\ \A i \in 1..8 : topN(filtered, tab)[i].id
                       \notin { "claude-opus-4-5", "claude-opus-4-6" }

(***************************************************************************)
(* Properties of the catalog across renders                                *)
(***************************************************************************)
\* C23: whatever the user does (filters, sort, search, opening and closing a
\* model, tabs), models, labs and providers keep their contents and their
\* order, and so does the providers array of every model: each render sorts
\* copies and filters into new arrays, which hold what Home, the chart and
\* the provider table show.
C23_CatalogNeverMutated ==
  LET done == RenderPass
  IN  /\ models = CatalogExcerpt
      /\ Get(done, "data.models") = models
      /\ Get(done, "data.labs") = labs
      /\ Get(done, "data.providers") = providers
      /\ selectedModel # null =>
           /\ IsRow(models, selectedModel)
           /\ Get(done, "model.providers") = selectedModel.providers
      /\ Get(done, "Home.filtered") = filtered
      /\ Get(done, "Home.sorted") = sorted
      /\ Get(done, "Home.searched") = searched
      /\ Get(done, "models") = filtered

\* rendered: three models filtered in, the lowest score first, a query typed,
\* the speed tab, and gpt-oss-120b open with its providers ordered by speed,
\* each order another one than the array it was copied from has
C23_Witness ==
  LET done == RenderPass
  IN  /\ rendered = RenderState
      /\ Len(filtered) = 3
      /\ sortCol = "score"
      /\ sortAsc
      /\ searchQuery # << >>
      /\ tab = "speed"
      /\ selectedModel # null
      /\ selectedModel.id = "gpt-oss-120b"
      /\ provSortCol = "speed"
      /\ Get(done, "Home.sorted") # Get(done, "Home.filtered")
      /\ Get(done, "sorted") # Get(done, "models")
      /\ Get(done, "speedProviders") # Get(done, "model.providers")
      /\ Get(done, "sortedProviders") # Get(done, "model.providers")

====
